---- MODULE Spec2Model ----
(***************************************************************************)
(* A model of the BLDS coordinator (Server, src/src/server.cc) and of the  *)
(* per-client state it uses (Client, src/src/client.cc).                   *)
(*                                                                         *)
(* Conventions.                                                            *)
(*  - Times are integers counted in ticks; one sample period is            *)
(*    TicksPerSample ticks and one second is TicksPerSec ticks, so that a  *)
(*    request may fall between two samples and the casts to int of         *)
(*    server.cc (static_cast<int>(stop * sr)) are integer divisions.       *)
(*  - Strings that name files are sequences of tokens ("/" and the         *)
(*    extensions are tokens of their own), so that the concatenations of   *)
(*    createFile and of the save-file check are computed, not assumed.     *)
(*  - The data source and the recording file are external libraries. The   *)
(*    source is an actor with a FIFO of requests; it answers each request  *)
(*    once, and the listeners connected when it emits a signal run at      *)
(*    that moment: the direct Qt connection of a source that stays on the  *)
(*    coordinator's thread (server.cc:452). Within one emission, a         *)
(*    listener that disconnects the signal keeps the later listeners from  *)
(*    running (QMetaObject::activate skips disconnected connections).      *)
(*    Events that a source on its own thread posted before the coordinator *)
(*    changed its connections, and that are handled after, are not part of *)
(*    this model.                                                          *)
(*  - A call on a Client object that was already handed to deleteLater is *)
(*    undefined behaviour: the step chooses between the outcomes (the      *)
(*    process dies; the call has no visible effect). A call through the    *)
(*    null file pointer kills the process.                                 *)
(*  - The source keeps its own state: it starts a stream only when it is   *)
(*    initialized and idle, stops one only when it is streaming, and emits *)
(*    samples only while it streams; any request may fail.                 *)
(***************************************************************************)
EXTENDS Integers, Sequences, FiniteSets, TLC

(* ---------------------------------------------------------------- bounds *)
\* Number of client sessions created over a run (session ids 1..NumSessions).
NumSessions == 2
\* Longest pending-request queue explored per client.
MaxPending == 2
\* Largest number of rows of one sample batch.
MaxRows == 2
\* Most requests outstanding at the source.
MaxSrcReq == 2
\* Largest recording-length (seconds) a client sets.
MaxRecordingLength == 3
\* Most bytes a client has written that its session has not received, and most
\* bytes a session's socket buffers.
MaxInFlight == 26
MaxBuffer == 26
\* Most rows (samples) and columns (channels) of a DataFrame that is converted.
MaxFrameRows == 2
MaxFrameCols == 2
\* The longest queue of posted signals that is explored.
MaxPosted == 2

(* ---------------------------------------------- configuration and units *)
\* Ticks per sample period.
TicksPerSample == 2
\* Samples per second, sourceStatus["sample-rate"] and file->sampleRate().
SampleRate == 1
TicksPerSec == TicksPerSample * SampleRate
\* maxConnections, read by readConfigFile.
maxConnections == 2
\* maxRequestChunkSize (seconds), read by readConfigFile.
maxRequestChunkSize == 2
\* recordingLength (seconds) and readInterval (ms) as read by readConfigFile.
DefaultRecordingLength == 3
DefaultReadInterval == 10

\* No file holds more samples: a recording is finished by the batch that takes
\* it to recordingLength seconds, so this cap on nsamples is never met.
MaxSamples == MaxRecordingLength * SampleRate + MaxRows

\* Stands for "no client" in the records below (session ids start at 1).
NoClient == NumSessions - NumSessions
SessionIds == 1..NumSessions

(* ------------------------------------------------------------- file names *)
Slash == "/"
ExtH5 == ".h5"
ExtHdf5 == ".hdf5"
\* DefaultSaveDirectory: a home directory path that ends with a slash.
DefaultSaveDirectory == <<"d", Slash>>
\* Directories that exist on disk.
ExistingDirs == {<<"d">>}
\* Names and directories clients send.
FileNames == {<<>>, <<"a">>, <<"a", ExtH5>>}
DirNames == {<<"d">>, <<"d", Slash>>, <<"x">>}
\* QDateTime::currentDateTime().toString(DefaultSaveFormat)
Timestamps == {<<"t1">>}

RECURSIVE Collapse(_)
\* A path with runs of slashes collapsed, as the file system resolves it.
Collapse(p) ==
    IF Len(p) <= 1 THEN p
    ELSE IF p[1] = Slash /\ p[2] = Slash THEN Collapse(Tail(p))
    ELSE <<p[1]>> \o Collapse(Tail(p))

\* The canonical form of a path: slashes collapsed, no trailing slash.
Canon(p) ==
    LET q == Collapse(p)
    IN IF Len(q) > 1 /\ q[Len(q)] = Slash THEN SubSeq(q, 1, Len(q) - 1) ELSE q

\* QFileInfo::exists(path) against the files on disk and the directories.
PathExists(files, p) == Canon(p) \in files \cup ExistingDirs

\* saveFile.endsWith(".h5") || saveFile.endsWith(".hdf5")
HasExtension(name) == Len(name) > 0 /\ name[Len(name)] \in {ExtH5, ExtHdf5}

(* ---------------------------------------------------------------- records *)
\* The event handled by the last step, with its inputs.
Op(name, client, param, flag, str, num, start, stop) ==
    [name |-> name, client |-> client, param |-> param, flag |-> flag,
     str |-> str, num |-> num, start |-> start, stop |-> stop]

\* A message written to a client session by the last step.
Msg(to, type, ok, param, start, stop, rows, via) ==
    [to |-> to, type |-> type, ok |-> ok, param |-> param,
     start |-> start, stop |-> stop, rows |-> rows, via |-> via]

Reply(to, type, ok, param) == Msg(to, type, ok, param, 0, 0, 0, "reply")
ErrorMsg(to, via) == Msg(to, "error", FALSE, "", 0, 0, 0, via)
ChunkError(to, start, stop, via) == Msg(to, "error", FALSE, "", start, stop, 0, via)
Frame(to, start, stop, rows, via) == Msg(to, "data", TRUE, "", start, stop, rows, via)
\* A request emitted to the source (requestSourceGet, requestSourceSet, ...);
\* by: the client whose message made the coordinator emit it.
Request(kind, param, by) == [kind |-> kind, param |-> param, by |-> by]
\* Marks a call on a Client object that was already deleted.
Dangling(to, type) == Msg(to, "use-after-delete", FALSE, type, 0, 0, 0, "ub")
\* Marks a dereference of the null file pointer.
NullFile == Msg(NoClient, "null-file", FALSE, "", 0, 0, 0, "ub")

\* A DataFrame (m_start and m_stop as the bit patterns of the floats, the shape,
\* the samples in the order of memptr()), the memory at data() of a QByteArray
\* with the array's size(), and how far the conversion of the frame has gone.
FrameIO(stage, start, stop, rows, cols, data, wire, size) ==
    [stage |-> stage, start |-> start, stop |-> stop, rows |-> rows, cols |-> cols,
     data |-> data, wire |-> wire, size |-> size]
\* No DataFrame is being converted.
NoFrame == FrameIO("none", 0, 0, 0, 0, <<>>, <<>>, 0)

VARIABLES
    source,          \* Server::source is not null
    srcMode,         \* the source object's own state: none, uninit, ready, streaming
    srcReq,          \* requests emitted to the source and not yet answered
    initializedL,    \* clients captured by the listeners of initialized()
    getRespL,        \* ... of getResponse()
    setRespL,        \* ... of setResponse()
    streamStartedL,  \* ... of streamStarted()
    streamStoppedL,  \* ... of streamStopped()
    dataAvail,       \* number of connections of dataAvailable() to handleNewDataAvailable
    file,            \* Server::file is not null
    nsamples,        \* file->nsamples()
    disk,            \* the files that exist on disk (canonical paths)
    saveFile, saveDirectory, recordingLength, readInterval,
    clients,         \* Server::clients, in list order
    nclients,        \* Server::nclients
    nextId,          \* number of sessions created so far
    deleted,         \* sessions whose Client object was handed to deleteLater
    requestedAll,    \* Client::m_requestedAllData, per session
    pending,         \* Client::m_pendingRequests, per session
    subscribed,      \* history: sessions with an accepted get-all-data(true) that
                     \* no get-all-data(false) cancelled
    crashed,         \* the process died of undefined behaviour
    lastOp,          \* the event the last step handled
    sent,            \* the messages the last step wrote, in order
    inbuf,           \* per session: the bytes received on Client::m_socket and not read
    inflight,        \* per session: the bytes the remote client wrote, not yet received
    frameIO,         \* a DataFrame and the byte array it is converted to and from
    posted           \* the signals of a source that lives in sourceThread, posted to
                     \* the coordinator's event loop and not yet handled

srcVars == <<source, srcMode, srcReq, initializedL, getRespL, setRespL,
             streamStartedL, streamStoppedL, dataAvail>>
fileVars == <<file, nsamples, disk>>
paramVars == <<saveFile, saveDirectory, recordingLength, readInterval>>
listVars == <<clients, nclients, nextId, deleted>>
clientVars == <<requestedAll, pending, subscribed>>
byteVars == <<inbuf, inflight, frameIO>>
ioVars == <<byteVars, posted>>
vars == <<srcVars, fileVars, paramVars, listVars, clientVars, crashed, lastOp, sent,
          ioVars>>

\* Sessions whose Client object is alive (they can send messages).
Connected == {c \in 1..nextId : c \notin deleted}

Init ==
    /\ source = FALSE /\ srcMode = "none" /\ srcReq = <<>>
    /\ initializedL = <<>> /\ getRespL = <<>> /\ setRespL = <<>>
    /\ streamStartedL = <<>> /\ streamStoppedL = <<>> /\ dataAvail = 0
    /\ file = FALSE /\ nsamples = 0 /\ disk = {}
    /\ saveFile = <<>> /\ saveDirectory = DefaultSaveDirectory
    /\ recordingLength = DefaultRecordingLength
    /\ readInterval = DefaultReadInterval
    /\ clients = <<>> /\ nclients = 0 /\ nextId = 0 /\ deleted = {}
    /\ requestedAll = [c \in SessionIds |-> FALSE]
    /\ pending = [c \in SessionIds |-> <<>>]
    /\ subscribed = {}
    /\ crashed = FALSE
    /\ lastOp = Op("boot", NoClient, "", FALSE, <<>>, 0, 0, 0)
    /\ sent = <<>>
    /\ inbuf = [c \in SessionIds |-> <<>>]
    /\ inflight = [c \in SessionIds |-> <<>>]
    /\ frameIO = NoFrame
    /\ posted = <<>>

(* ------------------------------------------------------------- helpers *)
RECURSIVE SeqToSet(_)
SeqToSet(s) == IF s = <<>> THEN {} ELSE {Head(s)} \cup SeqToSet(Tail(s))

RECURSIVE RemoveOne(_, _)
\* QList::removeOne: the list without the first occurrence of c.
RemoveOne(s, c) ==
    IF s = <<>> THEN <<>>
    ELSE IF Head(s) = c THEN Tail(s)
    ELSE <<Head(s)>> \o RemoveOne(Tail(s), c)

RECURSIVE Reverse(_)
Reverse(s) == IF s = <<>> THEN <<>> ELSE Reverse(Tail(s)) \o <<Head(s)>>

\* The outcomes of a step that may run into undefined behaviour.
UbChoices(cond) == IF cond THEN {"crash", "benign"} ELSE {"none"}

\* What a send to session c does: a call on a deleted object leaves a mark only.
SendTo(c, m) == IF c \in deleted THEN Dangling(c, m.type) ELSE m

\* The process dies in the middle of a handler.
Crash(op, mark) ==
    /\ crashed' = TRUE
    /\ lastOp' = op
    /\ sent' = <<mark>>
    /\ UNCHANGED <<srcVars, fileVars, paramVars, listVars, clientVars>>

\* file->length() in ticks.
FileLength(n) == n * TicksPerSample

\* static_cast<int>(t * sr) for a time t in ticks.
SampleIndex(t) == t \div TicksPerSample

(* -------------------------------------------------------------- Client *)
\* Variant of numServicableRequests that leaves out the requests that stop
\* exactly at time.
numServicableRequestsBefore(q, time) ==
    Cardinality({i \in 1..Len(q) : q[i][2] < time})

\* Client::numServicableRequests
numServicableRequests(q, time) ==
    Cardinality({i \in 1..Len(q) : q[i][2] <= time})

\* Variant of nextPendingRequest that takes the newest request (takeLast).
takeLastPendingRequest(q) == <<q[Len(q)], SubSeq(q, 1, Len(q) - 1)>>

\* Client::nextPendingRequest: <<the request returned, the queue left>>.
nextPendingRequest(q) == <<Head(q), Tail(q)>>

\* Variant of addPendingDataRequest that puts the request at the head.
addPendingDataRequestFirst(q, start, stop) == <<<<start, stop>>>> \o q

\* Client::addPendingDataRequest
addPendingDataRequest(q, start, stop) == Append(q, <<start, stop>>)

(* ------------------------------------------------------ recording file *)
\* DataFile::data(begin, end): the range is readable when it lies in the file.
InRange(begin, end, n) == 0 <= begin /\ begin < end /\ end <= n

(* -------------------------------------------------------------- Server *)
\* Server::verifyChunkRequest
verifyChunkRequest(start, stop) ==
    /\ start >= 0
    /\ stop > start + TicksPerSample
    /\ stop - start <= maxRequestChunkSize * TicksPerSec

\* Variant of deleteSource: the connections go, the source pointer stays.
disconnectSource ==
    /\ initializedL' = <<>> /\ getRespL' = <<>> /\ setRespL' = <<>>
    /\ streamStartedL' = <<>> /\ streamStoppedL' = <<>> /\ dataAvail' = 0
    /\ UNCHANGED <<source, srcMode, srcReq>>

\* Server::deleteSource: every connection of the source goes with it.
deleteSource ==
    /\ source' = FALSE /\ srcMode' = "none" /\ srcReq' = <<>>
    /\ initializedL' = <<>> /\ getRespL' = <<>> /\ setRespL' = <<>>
    /\ streamStartedL' = <<>> /\ streamStoppedL' = <<>> /\ dataAvail' = 0

\* Server::handleNewClient
handleNewClient ==
    /\ ~crashed
    /\ IF nclients = maxConnections
       THEN /\ lastOp' = Op("connection-refused", NoClient, "", FALSE, <<>>, 0, 0, 0)
            /\ UNCHANGED listVars
       ELSE /\ nextId < NumSessions
            /\ nextId' = nextId + 1
            /\ clients' = Append(clients, nextId + 1)
            /\ nclients' = nclients + 1
            /\ lastOp' = Op("connect", nextId + 1, "", FALSE, <<>>, 0, 0, 0)
            /\ UNCHANGED deleted
    /\ sent' = <<>>
    /\ UNCHANGED <<srcVars, fileVars, paramVars, clientVars, crashed>>

\* Server::handleClientDisconnection
handleClientDisconnection(c) ==
    /\ ~crashed
    /\ c \in Connected
    /\ clients' = RemoveOne(clients, c)
    /\ deleted' = deleted \cup {c}
    /\ nclients' = nclients - 1
    /\ lastOp' = Op("disconnect", c, "", FALSE, <<>>, 0, 0, 0)
    /\ sent' = <<>>
    /\ UNCHANGED <<srcVars, fileVars, paramVars, nextId, clientVars, crashed>>

\* Variant of createRefused: a source whose initialization is pending does not
\* refuse a create-source request.
createRefusedOnceInitialized == source /\ srcMode # "uninit"

\* Server::handleClientCreateSourceMessage: is the request refused because a
\* source exists (if (source))?
createRefused == source

\* Server::handleClientCreateSourceMessage; created: datasource::create did not throw.
handleClientCreateSourceMessage(c, created) ==
    /\ ~crashed
    /\ c \in Connected
    /\ lastOp' = Op("create-source", c, "", created, <<>>, 0, 0, 0)
    /\ IF createRefused
       THEN /\ sent' = <<Reply(c, "source-created", FALSE, "exists")>>
            /\ UNCHANGED srcVars
       ELSE IF created
       THEN /\ source' = TRUE /\ srcMode' = "uninit"
            /\ initializedL' = Append(initializedL, c)
            /\ srcReq' = <<Request("init", "", c)>>
            /\ sent' = <<>>
            /\ UNCHANGED <<getRespL, setRespL, streamStartedL, streamStoppedL, dataAvail>>
       ELSE /\ sent' = <<Reply(c, "source-created", FALSE, "create-failed")>>
            /\ UNCHANGED srcVars
    /\ UNCHANGED <<fileVars, paramVars, listVars, clientVars, crashed>>

\* Server::handleClientDeleteSourceMessage
handleClientDeleteSourceMessage(c) ==
    /\ ~crashed
    /\ c \in Connected
    /\ lastOp' = Op("delete-source", c, "", FALSE, <<>>, 0, 0, 0)
    /\ IF source
       THEN IF file
            THEN /\ sent' = <<Reply(c, "source-deleted", FALSE, "recording")>>
                 /\ UNCHANGED srcVars
            ELSE /\ deleteSource
                 /\ sent' = <<Reply(c, "source-deleted", TRUE, "")>>
       ELSE /\ sent' = <<Reply(c, "source-deleted", FALSE, "no-source")>>
            /\ UNCHANGED srcVars
    /\ UNCHANGED <<fileVars, paramVars, listVars, clientVars, crashed>>

\* Server::handleClientSetServerParamMessage, for the two string parameters.
\* The result: <<success, saveFile, saveDirectory>>.
setStringParam(param, name) ==
    IF param = "save-file"
    THEN IF PathExists(disk, saveDirectory \o name)
         THEN <<FALSE, saveFile, saveDirectory>>
         ELSE <<TRUE, name, saveDirectory>>
    ELSE IF PathExists(disk, name)
         THEN <<TRUE, saveFile, name>>
         ELSE <<FALSE, saveFile, saveDirectory>>

\* Variant of setRefused: the recording does not refuse a set request.
setNeverRefused == FALSE

\* Server::handleClientSetServerParamMessage: is the request refused because
\* of the recording?
setRefused == file

\* Server::handleClientSetServerParamMessage (save-file, save-directory)
handleClientSetServerParamString(c, param, name) ==
    /\ ~crashed
    /\ c \in Connected
    /\ lastOp' = Op("set", c, param, FALSE, name, 0, 0, 0)
    /\ IF setRefused
       THEN /\ sent' = <<Reply(c, "set", FALSE, param)>>
            /\ UNCHANGED paramVars
       ELSE LET r == setStringParam(param, name)
            IN /\ sent' = <<Reply(c, "set", r[1], param)>>
               /\ saveFile' = r[2]
               /\ saveDirectory' = r[3]
               /\ UNCHANGED <<recordingLength, readInterval>>
    /\ UNCHANGED <<srcVars, fileVars, listVars, clientVars, crashed>>

\* Server::handleClientSetServerParamMessage (recording-length, read-interval)
handleClientSetServerParamNumber(c, param, val) ==
    /\ ~crashed
    /\ c \in Connected
    /\ lastOp' = Op("set", c, param, FALSE, <<>>, val, 0, 0)
    /\ IF setRefused
       THEN /\ sent' = <<Reply(c, "set", FALSE, param)>>
            /\ UNCHANGED paramVars
       ELSE /\ sent' = <<Reply(c, "set", TRUE, param)>>
            /\ recordingLength' = IF param = "recording-length" THEN val ELSE recordingLength
            /\ readInterval' = IF param = "read-interval" THEN val ELSE readInterval
            /\ UNCHANGED <<saveFile, saveDirectory>>
    /\ UNCHANGED <<srcVars, fileVars, listVars, clientVars, crashed>>

\* Client::handleAllDataRequestMessage: the flag as the session leaves it
\* before the coordinator sees the request (m_stream >> m_requestedAllData).
parseAllDataFlag(old, requested) == requested

\* Client::handleAllDataRequestMessage, then Server::handleClientAllDataRequest
handleClientAllDataRequest(c, requested) ==
    /\ ~crashed
    /\ c \in Connected
    /\ lastOp' = Op("get-all-data", c, "", requested, <<>>, 0, 0, 0)
    /\ LET parsed == parseAllDataFlag(requestedAll[c], requested)
       IN IF ~file \/ ~requested
          THEN /\ requestedAll' = [requestedAll EXCEPT ![c] = requested]
               /\ subscribed' = IF requested THEN subscribed \cup {c}
                                 ELSE subscribed \ {c}
               /\ sent' = <<Reply(c, "get-all-data", TRUE, "")>>
          ELSE /\ requestedAll' = [requestedAll EXCEPT ![c] = parsed]
               /\ UNCHANGED subscribed
               /\ sent' = <<Reply(c, "get-all-data", FALSE, "")>>
    /\ UNCHANGED <<srcVars, fileVars, paramVars, listVars, pending, crashed>>

\* Server::createFile: <<the file was created, saveFile afterwards, its path>>.
\* ts: the current time as a name; ctorOk: the DataFile constructor did not throw.
createFile(ts, ctorOk) ==
    LET named == IF saveFile = <<>> THEN ts ELSE saveFile
        name == IF HasExtension(named) THEN named ELSE named \o <<ExtH5>>
        fullpath == saveDirectory \o <<Slash>> \o name
    IN <<~PathExists(disk, fullpath) /\ ctorOk, name, Canon(fullpath)>>

\* Server::handleClientStartRecordingMessage
handleClientStartRecordingMessage(c, ts, ctorOk) ==
    /\ ~crashed
    /\ c \in Connected
    /\ (source /\ ~file) => Len(srcReq) < MaxSrcReq
    /\ lastOp' = Op("start-recording", c, "", ctorOk, ts, 0, 0, 0)
    /\ IF source /\ ~file
       THEN LET r == createFile(ts, ctorOk)
            IN /\ saveFile' = r[2]
               /\ IF r[1]
                  THEN /\ file' = TRUE /\ nsamples' = 0
                       /\ disk' = disk \cup {r[3]}
                       /\ dataAvail' = dataAvail + 1
                       /\ streamStartedL' = Append(streamStartedL, c)
                       /\ srcReq' = Append(srcReq, Request("start", "", c))
                       /\ sent' = <<>>
                  ELSE /\ sent' = <<Reply(c, "recording-started", FALSE, "create-file")>>
                       /\ UNCHANGED <<fileVars, dataAvail, streamStartedL, srcReq>>
       ELSE /\ sent' = <<Reply(c, "recording-started", FALSE,
                               IF source THEN "active" ELSE "no-source")>>
            /\ UNCHANGED <<fileVars, saveFile, dataAvail, streamStartedL, srcReq>>
    /\ UNCHANGED <<source, srcMode, initializedL, getRespL, setRespL, streamStoppedL,
                   saveDirectory, recordingLength, readInterval,
                   listVars, clientVars, crashed>>

\* Server::handleClientStopRecordingMessage
handleClientStopRecordingMessage(c) ==
    /\ ~crashed
    /\ c \in Connected
    /\ (source /\ file) => Len(srcReq) < MaxSrcReq
    /\ lastOp' = Op("stop-recording", c, "", FALSE, <<>>, 0, 0, 0)
    /\ IF source /\ file
       THEN /\ dataAvail' = 0
            /\ streamStoppedL' = Append(streamStoppedL, c)
            /\ srcReq' = Append(srcReq, Request("stop", "", c))
            /\ sent' = <<>>
       ELSE /\ sent' = <<Reply(c, "recording-stopped", FALSE,
                               IF source THEN "no-recording" ELSE "no-source")>>
            /\ UNCHANGED <<dataAvail, streamStoppedL, srcReq>>
    /\ UNCHANGED <<source, srcMode, initializedL, getRespL, setRespL, streamStartedL,
                   fileVars, paramVars, listVars, clientVars, crashed>>

\* Server::handleClientSetSourceParamMessage
handleClientSetSourceParamMessage(c, param) ==
    /\ ~crashed
    /\ c \in Connected
    /\ source => Len(srcReq) < MaxSrcReq
    /\ lastOp' = Op("set-source", c, param, FALSE, <<>>, 0, 0, 0)
    /\ IF ~source
       THEN /\ sent' = <<Reply(c, "set-source", FALSE, param)>>
            /\ UNCHANGED <<setRespL, srcReq>>
       ELSE /\ setRespL' = Append(setRespL, c)
            /\ srcReq' = Append(srcReq, Request("set", param, c))
            /\ sent' = <<>>
    /\ UNCHANGED <<source, srcMode, initializedL, getRespL, streamStartedL,
                   streamStoppedL, dataAvail,
                   fileVars, paramVars, listVars, clientVars, crashed>>

\* Server::handleClientGetSourceParamMessage
handleClientGetSourceParamMessage(c, param) ==
    /\ ~crashed
    /\ c \in Connected
    /\ source => Len(srcReq) < MaxSrcReq
    /\ lastOp' = Op("get-source", c, param, FALSE, <<>>, 0, 0, 0)
    /\ IF ~source
       THEN /\ sent' = <<Reply(c, "get-source", FALSE, param)>>
            /\ UNCHANGED <<getRespL, srcReq>>
       ELSE /\ getRespL' = Append(getRespL, c)
            /\ srcReq' = Append(srcReq, Request("get", param, c))
            /\ sent' = <<>>
    /\ UNCHANGED <<source, srcMode, initializedL, setRespL, streamStartedL,
                   streamStoppedL, dataAvail,
                   fileVars, paramVars, listVars, clientVars, crashed>>

\* Variant of dataRequestOutcome that does not test for a recording file.
dataRequestOutcomeAnyFile(start, stop) ==
    IF stop > recordingLength * TicksPerSec THEN "error"
    ELSE IF ~verifyChunkRequest(start, stop) THEN "error"
    ELSE IF nsamples >= SampleIndex(stop) THEN "send"
    ELSE "queue"

\* Server::handleClientDataRequest: "error", "send" or "queue".
dataRequestOutcome(start, stop) ==
    IF ~file THEN "error"
    ELSE IF stop > recordingLength * TicksPerSec THEN "error"
    ELSE IF ~verifyChunkRequest(start, stop) THEN "error"
    ELSE IF nsamples >= SampleIndex(stop) THEN "send"
    ELSE "queue"

\* Server::handleClientDataRequest
handleClientDataRequest(c, start, stop) ==
    /\ ~crashed
    /\ c \in Connected
    /\ lastOp' = Op("get-data", c, "", FALSE, <<>>, 0, start, stop)
    /\ LET out == dataRequestOutcome(start, stop)
       IN /\ out = "queue" => Len(pending[c]) < MaxPending
          /\ sent' = IF out = "error" THEN <<ChunkError(c, start, stop, "reply")>>
                     ELSE IF out = "send"
                     THEN <<Frame(c, start, stop,
                                  SampleIndex(stop) - SampleIndex(start), "immediate")>>
                     ELSE <<>>
          /\ pending' = IF out = "queue"
                        THEN [pending EXCEPT
                                ![c] = addPendingDataRequest(pending[c], start, stop)]
                        ELSE pending
    /\ UNCHANGED <<srcVars, fileVars, paramVars, listVars, requestedAll, subscribed,
                   crashed>>

(* ----------------------------------------------- the samples event *)
\* Variant of sendDataToClients that stops after the first client of the list.
sendDataToFirstClient(cs, start, stop, rows) ==
    IF cs = <<>> THEN <<>>
    ELSE IF Head(cs) \notin deleted /\ requestedAll[Head(cs)]
    THEN <<Frame(Head(cs), start, stop, rows, "broadcast")>>
    ELSE <<>>

RECURSIVE sendDataToClients(_, _, _, _)
\* Server::sendDataToClients over the list cs: the frames written, in order.
sendDataToClients(cs, start, stop, rows) ==
    IF cs = <<>> THEN <<>>
    ELSE LET c == Head(cs)
             m == IF c \in deleted THEN <<Dangling(c, "data")>>
                  ELSE IF requestedAll[c] THEN <<Frame(c, start, stop, rows, "broadcast")>>
                  ELSE <<>>
         IN m \o sendDataToClients(Tail(cs), start, stop, rows)

RECURSIVE drainClient(_, _, _, _, _)
\* The while loop of Server::servicePendingDataRequests for one client with
\* queue q, at recording length time and with n samples in the file.
\* oor: what DataFile::data does for a range outside the file.
drainClient(c, q, time, n, oor) ==
    IF numServicableRequests(q, time) > 0
    THEN LET r == nextPendingRequest(q)
             begin == SampleIndex(r[1][1])
             end == SampleIndex(r[1][2])
             m == IF InRange(begin, end, n) \/ oor = "data"
                  THEN Frame(c, r[1][1], r[1][2], end - begin, "drain")
                  ELSE ChunkError(c, r[1][1], r[1][2], "drain")
             next == drainClient(c, r[2], time, n, oor)
         IN [msgs |-> <<m>> \o next.msgs, rest |-> next.rest]
    ELSE [msgs |-> <<>>, rest |-> q]

RECURSIVE servicePendingDataRequests(_, _, _, _)
\* Server::servicePendingDataRequests over the list cs: the messages written.
servicePendingDataRequests(cs, time, n, oor) ==
    IF cs = <<>> THEN <<>>
    ELSE LET c == Head(cs)
             m == IF c \in deleted THEN <<Dangling(c, "drain")>>
                  ELSE drainClient(c, pending[c], time, n, oor).msgs
         IN m \o servicePendingDataRequests(Tail(cs), time, n, oor)

\* Variant of checkRecordingFinished: a recording of exactly recordingLength
\* seconds is not finished.
checkRecordingFinishedPast(n) == FileLength(n) > recordingLength * TicksPerSec

\* Variant of checkRecordingFinished: the check runs only when clients are served.
checkRecordingFinishedIfServed(n) ==
    nclients # 0 /\ FileLength(n) >= recordingLength * TicksPerSec

\* Server::checkRecordingFinished with n samples in the file.
checkRecordingFinished(n) == FileLength(n) >= recordingLength * TicksPerSec

\* Server::handleRecordingFinished
handleRecordingFinished ==
    /\ streamStoppedL' = <<>>
    /\ dataAvail' = 0
    /\ srcReq' = Append(srcReq, Request("stop", "", NoClient))
    /\ file' = FALSE /\ nsamples' = 0
    /\ saveFile' = <<>>

\* Does the handler serve the clients (if (nclients) ...)?
servesClients == nclients # 0

\* Server::handleNewDataAvailable for a batch of rows rows.
handleNewDataAvailable(rows, appendOk, oor) ==
    /\ nsamples + rows <= MaxSamples
    /\ LET n2 == nsamples + rows
           time == FileLength(n2)
           start == FileLength(n2 - rows)
           op == Op("samples", NoClient, "", appendOk, <<>>, rows, start, time)
           stale == {c \in SeqToSet(clients) : c \in deleted}
       IN IF ~file
          THEN Crash(op, NullFile)
          ELSE \E ub \in UbChoices(stale # {} /\ (~appendOk \/ servesClients)) :
               IF ub = "crash"
               THEN Crash(op, Dangling(CHOOSE c \in stale : TRUE, "samples"))
               ELSE IF ~appendOk
               THEN \* Server::handleNewDataAvailable, the catch block
                    /\ sent' = [i \in 1..Len(clients) |->
                                   SendTo(clients[i], ErrorMsg(clients[i], "append-failed"))]
                    /\ deleted' = deleted \cup SeqToSet(clients)
                    /\ deleteSource
                    /\ lastOp' = op
                    /\ UNCHANGED <<fileVars, paramVars, clients, nclients, nextId,
                                   clientVars, crashed>>
               ELSE /\ lastOp' = op
                    /\ sent' = IF servesClients
                               THEN sendDataToClients(clients, start, time, rows)
                                    \o servicePendingDataRequests(clients, time, n2, oor)
                               ELSE <<>>
                    /\ pending' = IF servesClients
                                  THEN [c \in SessionIds |->
                                          IF c \in SeqToSet(clients) /\ c \notin deleted
                                          THEN drainClient(c, pending[c], time, n2, oor).rest
                                          ELSE pending[c]]
                                  ELSE pending
                    /\ IF checkRecordingFinished(n2)
                       THEN handleRecordingFinished
                       ELSE /\ nsamples' = n2
                            /\ UNCHANGED <<streamStoppedL, dataAvail, srcReq, file, saveFile>>
                    /\ UNCHANGED <<source, srcMode, initializedL, getRespL, setRespL,
                                   streamStartedL, disk, saveDirectory, recordingLength,
                                   readInterval, listVars, requestedAll, subscribed,
                                   crashed>>

\* The source emits dataAvailable(samples) with rows rows; the handler runs at
\* once when it is connected.
SourceData(rows, appendOk, oor) ==
    /\ ~crashed
    /\ source /\ srcMode = "streaming"
    /\ nsamples + rows <= MaxSamples
    /\ IF dataAvail = 0
       THEN \* Nobody listens: the batch is dropped.
            /\ lastOp' = Op("samples-unheard", NoClient, "", FALSE, <<>>, 0, 0, 0)
            /\ sent' = <<>>
            /\ UNCHANGED <<srcVars, fileVars, paramVars, listVars, clientVars, crashed>>
       ELSE handleNewDataAvailable(rows, appendOk, oor)

\* The source emits error(msg): Server::handleSourceError
SourceError ==
    /\ ~crashed
    /\ source
    /\ LET op == Op("source-error", NoClient, "", FALSE, <<>>, 0, 0, 0)
           stale == {c \in SeqToSet(clients) : c \in deleted}
       IN \E ub \in UbChoices(stale # {}) :
          IF ub = "crash"
          THEN Crash(op, Dangling(CHOOSE c \in stale : TRUE, "error"))
          ELSE /\ lastOp' = op
               /\ sent' = [i \in 1..Len(clients) |->
                             LET c == Reverse(clients)[i]
                             IN SendTo(c, ErrorMsg(c, "source-error"))]
               /\ deleted' = deleted \cup SeqToSet(clients)
               /\ clients' = <<>>
               /\ deleteSource
               /\ UNCHANGED <<fileVars, paramVars, nclients, nextId, clientVars, crashed>>

(* ------------------------------------------- the source's responses *)
\* Server::handleSourceInitialized for the listener of client c.
handleSourceInitialized(c, ok) ==
    /\ IF ok
       THEN /\ initializedL' = <<>>
            /\ srcMode' = "ready"
            /\ srcReq' = Tail(srcReq)
            /\ UNCHANGED <<source, getRespL, setRespL, streamStartedL, streamStoppedL,
                           dataAvail>>
       ELSE deleteSource
    /\ sent' = <<SendTo(c, Reply(c, "source-created", ok, ""))>>
    /\ UNCHANGED <<fileVars, paramVars, listVars, clientVars, crashed>>

\* Server::handleSourceGetResponse for the listener of client c.
handleSourceGetResponse(c, param, ok) ==
    /\ getRespL' = <<>>
    /\ srcReq' = Tail(srcReq)
    /\ sent' = <<SendTo(c, Reply(c, "get-source", ok, param))>>
    /\ UNCHANGED <<source, srcMode, initializedL, setRespL, streamStartedL,
                   streamStoppedL, dataAvail,
                   fileVars, paramVars, listVars, clientVars, crashed>>

\* Server::handleSourceSetResponse for the listener of client c.
handleSourceSetResponse(c, param, ok) ==
    /\ setRespL' = <<>>
    /\ srcReq' = Tail(srcReq)
    /\ sent' = <<SendTo(c, Reply(c, "set-source", ok, param))>>
    /\ UNCHANGED <<source, srcMode, initializedL, getRespL, streamStartedL,
                   streamStoppedL, dataAvail,
                   fileVars, paramVars, listVars, clientVars, crashed>>

\* Server::handleSourceStreamStarted for the listener of client c.
handleSourceStreamStarted(c, ok) ==
    /\ streamStartedL' = <<>>
    /\ IF ok
       THEN UNCHANGED <<file, nsamples, saveFile, dataAvail>>
       ELSE /\ file' = FALSE /\ nsamples' = 0
            /\ saveFile' = <<>>
            /\ dataAvail' = 0
    /\ sent' = <<SendTo(c, Reply(c, "recording-started", ok, ""))>>
    /\ UNCHANGED <<source, initializedL, getRespL, setRespL, streamStoppedL, disk,
                   saveDirectory, recordingLength, readInterval,
                   listVars, clientVars, crashed>>

\* Server::handleSourceStreamStopped for the listener of client c (file not null
\* when ok).
handleSourceStreamStopped(c, ok) ==
    /\ streamStoppedL' = <<>>
    /\ IF ok
       THEN /\ file' = FALSE /\ nsamples' = 0
            /\ saveFile' = <<>>
       ELSE UNCHANGED <<file, nsamples, saveFile>>
    /\ sent' = <<SendTo(c, Reply(c, "recording-stopped", ok, ""))>>
    /\ UNCHANGED <<source, initializedL, getRespL, setRespL, streamStartedL, dataAvail,
                   disk, saveDirectory, recordingLength, readInterval,
                   listVars, clientVars, crashed>>

\* The answers the source may give to its oldest request: it starts a stream
\* only when it is ready and stops one only when it is streaming; every request
\* may fail.
Answers(kind) ==
    IF kind = "start" /\ srcMode # "ready" THEN {FALSE}
    ELSE IF kind = "stop" /\ srcMode # "streaming" THEN {FALSE}
    ELSE BOOLEAN

\* The source's state after it answered a request of this kind.
ModeAfter(kind, ok) ==
    IF kind = "init" THEN (IF ok THEN "ready" ELSE srcMode)
    ELSE IF kind = "start" THEN (IF ok THEN "streaming" ELSE srcMode)
    ELSE IF kind = "stop" THEN (IF ok /\ srcMode = "streaming" THEN "ready" ELSE srcMode)
    ELSE srcMode

\* The listeners of the signal that answers a request of this kind.
Listeners(kind) ==
    IF kind = "init" THEN initializedL
    ELSE IF kind = "get" THEN getRespL
    ELSE IF kind = "set" THEN setRespL
    ELSE IF kind = "start" THEN streamStartedL
    ELSE streamStoppedL

\* The source answers its oldest request and emits the paired signal; the first
\* connected listener runs, and it disconnects the others.
SourceRespond(ok) ==
    /\ ~crashed
    /\ source /\ srcReq # <<>>
    /\ LET req == Head(srcReq)
           kind == req.kind
           ls == Listeners(kind)
           c == IF ls = <<>> THEN NoClient ELSE Head(ls)
           op == Op(kind, c, req.param, ok, <<>>, 0, 0, 0)
       IN /\ ok \in Answers(kind)
          /\ IF ls = <<>>
             THEN \* No listener: only the source changes.
                  /\ srcReq' = Tail(srcReq)
                  /\ srcMode' = ModeAfter(kind, ok)
                  /\ lastOp' = op
                  /\ sent' = <<>>
                  /\ UNCHANGED <<source, initializedL, getRespL, setRespL, streamStartedL,
                                 streamStoppedL, dataAvail, fileVars, paramVars, listVars,
                                 clientVars, crashed>>
             ELSE IF kind = "stop" /\ ok /\ ~file
             THEN Crash(op, NullFile)
             ELSE \E ub \in UbChoices(c \in deleted) :
                  IF ub = "crash"
                  THEN Crash(op, Dangling(c, kind))
                  ELSE /\ lastOp' = op
                       /\ IF kind = "init" THEN handleSourceInitialized(c, ok)
                          ELSE IF kind = "get"
                          THEN handleSourceGetResponse(c, req.param, ok)
                          ELSE IF kind = "set"
                          THEN handleSourceSetResponse(c, req.param, ok)
                          ELSE IF kind = "start"
                          THEN /\ handleSourceStreamStarted(c, ok)
                               /\ srcReq' = Tail(srcReq)
                               /\ srcMode' = ModeAfter(kind, ok)
                          ELSE /\ handleSourceStreamStopped(c, ok)
                               /\ srcReq' = Tail(srcReq)
                               /\ srcMode' = ModeAfter(kind, ok)

(* ------------------------------- a source that lives in sourceThread *)
\* A source that is not a file is moved to sourceThread once it is initialized:
\* from then on its signals reach the coordinator through queued connections.
\* An emission posts one event per connection that exists at that moment, and
\* the event loop runs the slot of each posted event later, whether or not the
\* connection still exists then.

\* A posted signal: the client its listener captured and its arguments.
Posted(kind, to, ok, rows) == [kind |-> kind, to |-> to, ok |-> ok, rows |-> rows]

\* The source answers its oldest request in its thread and emits the paired
\* signal.
ThreadRespond(ok) ==
    /\ ~crashed
    /\ source /\ srcReq # <<>>
    /\ LET kind == Head(srcReq).kind
           ls == Listeners(kind)
       IN /\ kind # "init"
          /\ ok \in Answers(kind)
          /\ Len(posted) + Len(ls) <= MaxPosted
          /\ posted' = posted \o [i \in 1..Len(ls) |-> Posted(kind, ls[i], ok, 0)]
          /\ srcReq' = Tail(srcReq)
          /\ srcMode' = ModeAfter(kind, ok)
          /\ lastOp' = Op("posted", NoClient, kind, ok, <<>>, 0, 0, 0)
    /\ sent' = <<>>
    /\ UNCHANGED <<source, initializedL, getRespL, setRespL, streamStartedL,
                   streamStoppedL, dataAvail, fileVars, paramVars, listVars,
                   clientVars, crashed, byteVars>>

\* The source emits dataAvailable(samples) in its thread.
ThreadData(rows) ==
    /\ ~crashed
    /\ source /\ srcMode = "streaming"
    /\ dataAvail > 0
    /\ Len(posted) < MaxPosted
    /\ posted' = Append(posted, Posted("samples", NoClient, TRUE, rows))
    /\ lastOp' = Op("posted", NoClient, "samples", TRUE, <<>>, rows, 0, 0)
    /\ sent' = <<>>
    /\ UNCHANGED <<srcVars, fileVars, paramVars, listVars, clientVars, crashed,
                   byteVars>>

\* The coordinator's event loop handles the oldest posted signal.
Deliver(oor) ==
    /\ ~crashed
    /\ posted # <<>>
    /\ posted' = Tail(posted)
    /\ LET e == Head(posted)
           op == Op(e.kind, e.to, "", e.ok, <<>>, 0, 0, 0)
       IN IF e.kind = "samples"
          THEN handleNewDataAvailable(e.rows, TRUE, oor)
          ELSE IF e.kind = "stop" /\ e.ok /\ ~file
          THEN Crash(op, NullFile)
          ELSE \E ub \in UbChoices(e.to \in deleted) :
               IF ub = "crash"
               THEN Crash(op, Dangling(e.to, e.kind))
               ELSE /\ lastOp' = op
                    /\ IF e.kind = "start"
                       THEN handleSourceStreamStarted(e.to, e.ok)
                       ELSE handleSourceStreamStopped(e.to, e.ok)
                    /\ UNCHANGED <<srcReq, srcMode>>
    /\ UNCHANGED byteVars

(* ------------------------------------------- the session's parse loop *)
\* sizeof(quint32): the bytes of the length that starts a message.
SizeBytes == 4
\* The number of values of a byte.
ByteValues == 256
\* '\n', which ends the type line and the parameter line of a message.
NL == 10

RECURSIVE LittleEndian(_, _)
\* The k bytes of n, least significant first (QDataStream::LittleEndian).
LittleEndian(n, k) ==
    IF k = 0 THEN <<>>
    ELSE <<n % ByteValues>> \o LittleEndian(n \div ByteValues, k - 1)

RECURSIVE FromLittleEndian(_)
\* The number whose bytes, least significant first, are bs.
FromLittleEndian(bs) ==
    IF bs = <<>> THEN 0 ELSE Head(bs) + ByteValues * FromLittleEndian(Tail(bs))

\* The message types and the server parameters, as the bytes of their names:
\* "set", "get-all-data", "recording-length", "read-interval".
TypeSet == <<115, 101, 116>>
TypeGetAllData == <<103, 101, 116, 45, 97, 108, 108, 45, 100, 97, 116, 97>>
ParamRecordingLength ==
    <<114, 101, 99, 111, 114, 100, 105, 110, 103, 45, 108, 101, 110, 103, 116, 104>>
ParamReadInterval == <<114, 101, 97, 100, 45, 105, 110, 116, 101, 114, 118, 97, 108>>
\* "bogus": neither a message type nor a parameter.
Bogus == <<98, 111, 103, 117, 115>>

\* The name of a numeric server parameter, from its bytes.
ParamName(bytes) ==
    IF bytes = ParamRecordingLength THEN "recording-length" ELSE "read-interval"

\* QIODevice::read(n) on the buffer buf: <<the bytes read, the buffer left>>.
read(buf, n) ==
    LET k == IF n < Len(buf) THEN n ELSE Len(buf)
    IN <<SubSeq(buf, 1, k), SubSeq(buf, k + 1, Len(buf))>>

\* QIODevice::readLine() on the buffer buf: the bytes up to the first newline,
\* the newline included, or every byte when the buffer holds no newline.
readLine(buf) ==
    LET nls == {i \in 1..Len(buf) : buf[i] = NL}
        n == IF nls = {} THEN Len(buf) ELSE CHOOSE i \in nls : \A j \in nls : i <= j
    IN read(buf, n)

\* QByteArray::chop(1)
chop(line) == IF line = <<>> THEN <<>> ELSE SubSeq(line, 1, Len(line) - 1)

\* Client::handleReadyRead: does the loop go on to read a message from buf?
\* size - sizeof(size) is computed in 64 bits and cast to qint64, which is the
\* integer size - 4, negative when size < 4.
messageAvailable(buf) ==
    /\ Len(buf) >= SizeBytes
    /\ ~(Len(buf) < FromLittleEndian(SubSeq(buf, 1, SizeBytes)) - SizeBytes)

\* What the parse of one message emits, and the buffer it leaves.
Parsed(event, param, val, flag, rest) ==
    [event |-> event, param |-> param, val |-> val, flag |-> flag, rest |-> rest]

\* Client::handleServerSetMessage on the buffer buf. The clients of this model
\* name no string parameter (save-file, save-directory).
handleServerSetMessage(buf) ==
    LET p == readLine(buf)
        param == chop(p[1])
    IN IF param \in {ParamRecordingLength, ParamReadInterval}
       THEN LET v == read(p[2], SizeBytes)
            IN Parsed("set", ParamName(param), FromLittleEndian(v[1]), FALSE, v[2])
       ELSE Parsed("error", "unknown-parameter", 0, FALSE, p[2])

\* Client::handleAllDataRequestMessage on the buffer buf: m_stream >> bool reads
\* one byte, and false when there is none.
handleAllDataRequestMessage(buf) ==
    LET f == read(buf, 1)
    IN Parsed("get-all-data", "", 0, f[1] # <<>> /\ f[1][1] # 0, f[2])

\* Client::handleReadyRead, one turn of the loop on the buffer buf: the length
\* is read, then Client::handleMessage runs. The clients of this model write
\* messages of the types set and get-all-data and of an unknown type.
handleMessage(buf) ==
    LET t == readLine(read(buf, SizeBytes)[2])
        type == chop(t[1])
    IN IF t[1] = <<>> THEN Parsed("error", "malformed", 0, FALSE, t[2])
       ELSE IF type = TypeSet THEN handleServerSetMessage(t[2])
       ELSE IF type = TypeGetAllData THEN handleAllDataRequestMessage(t[2])
       ELSE Parsed("error", "unknown-type", 0, FALSE, t[2])

\* Server::handleClientMessageError
handleClientMessageError(c, what) ==
    /\ ~crashed
    /\ c \in Connected
    /\ lastOp' = Op("message-error", c, what, FALSE, <<>>, 0, 0, 0)
    /\ sent' = <<ErrorMsg(c, "message-error")>>
    /\ UNCHANGED <<srcVars, fileVars, paramVars, listVars, clientVars, crashed>>

\* A turn of the loop of some session is due: the handler of readyRead has not
\* returned yet, and no other event is handled before it does.
Parsing == \E c \in Connected : messageAvailable(inbuf[c])

\* Client::handleReadyRead for session c: one turn of its loop.
handleReadyRead(c) ==
    /\ c \in Connected
    /\ messageAvailable(inbuf[c])
    /\ LET m == handleMessage(inbuf[c])
       IN /\ inbuf' = [inbuf EXCEPT ![c] = m.rest]
          /\ IF m.event = "error" THEN handleClientMessageError(c, m.param)
             ELSE IF m.event = "set"
             THEN handleClientSetServerParamNumber(c, m.param, m.val)
             ELSE handleClientAllDataRequest(c, m.flag)
    /\ UNCHANGED <<inflight, frameIO, posted>>

\* The remote client of session c writes the message msg to its socket. The
\* sessions read their own sockets only, so one client writes at a time: the
\* others have no byte under way.
clientWrite(c, msg) ==
    /\ ~crashed /\ ~Parsing
    /\ c \in Connected
    /\ \A d \in SessionIds \ {c} : inflight[d] = <<>> /\ inbuf[d] = <<>>
    /\ Len(inflight[c]) + Len(msg) <= MaxInFlight
    /\ inflight' = [inflight EXCEPT ![c] = inflight[c] \o msg]
    /\ lastOp' = Op("client-write", c, "", FALSE, <<>>, Len(msg), 0, 0)
    /\ sent' = <<>>
    /\ UNCHANGED <<srcVars, fileVars, paramVars, listVars, clientVars, crashed,
                   inbuf, frameIO, posted>>

\* The socket of session c receives the next k bytes and emits readyRead: the
\* bytes arrive one at a time or all at once.
socketReceive(c, k) ==
    /\ ~crashed /\ ~Parsing
    /\ c \in Connected
    /\ inflight[c] # <<>>
    /\ k \in {1, Len(inflight[c])}
    /\ Len(inbuf[c]) + k <= MaxBuffer
    /\ inbuf' = [inbuf EXCEPT ![c] = inbuf[c] \o SubSeq(inflight[c], 1, k)]
    /\ inflight' = [inflight EXCEPT ![c] = SubSeq(inflight[c], k + 1, Len(inflight[c]))]
    /\ lastOp' = Op("bytes", c, "", FALSE, <<>>, k, 0, 0)
    /\ sent' = <<>>
    /\ UNCHANGED <<srcVars, fileVars, paramVars, listVars, clientVars, crashed, frameIO,
                   posted>>

(* ----------------------------------------------------------- DataFrame *)
\* sizeof(float), sizeof(DataFrame::DataType), and the values of a qint16.
FloatBytes == 4
SampleBytes == 2
Int16Values == 65536

\* The two bytes of a qint16 in memory, and the qint16 that two bytes hold.
Int16Bytes(v) == LittleEndian((v + Int16Values) % Int16Values, SampleBytes)
Int16Of(bs) ==
    LET u == FromLittleEndian(bs)
    IN IF 2 * u >= Int16Values THEN u - Int16Values ELSE u

RECURSIVE SamplesToBytes(_)
\* The memory at memptr() of a matrix of samples.
SamplesToBytes(data) ==
    IF data = <<>> THEN <<>> ELSE Int16Bytes(Head(data)) \o SamplesToBytes(Tail(data))

\* The samples held by n elements of memory at mem.
BytesToSamples(mem, n) ==
    [i \in 1..n |-> Int16Of(SubSeq(mem, SampleBytes * (i - 1) + 1, SampleBytes * i))]

\* DataFrame::bytesize
bytesize(f) == 2 * FloatBytes + 2 * SizeBytes + SampleBytes * Len(f.data)

\* DataFrame::serializeInto: the bytes written at buffer.
serializeInto(f) ==
    LittleEndian(f.start, FloatBytes) \o LittleEndian(f.stop, FloatBytes)
    \o LittleEndian(f.rows, SizeBytes) \o LittleEndian(f.cols, SizeBytes)
    \o SamplesToBytes(f.data)

\* DataFrame::serialize: the size the byte array is resized to.
serializeSize(f) == 2 * FloatBytes + 2 * SizeBytes * Len(f.data) * SampleBytes

\* The values a byte of memory that was never written may hold.
UninitBytes == {0, 1}

\* A DataFrame is constructed from start, stop and a matrix of samples.
newDataFrame(start, stop, rows, cols, data) ==
    /\ ~crashed
    /\ frameIO.stage \in {"none", "back", "sent", "crashed"}
    /\ Len(data) = rows * cols
    /\ frameIO' = FrameIO("frame", start, stop, rows, cols, data, <<>>, 0)
    /\ lastOp' = Op("frame", NoClient, "", FALSE, <<>>, Len(data), 0, 0)
    /\ sent' = <<>>
    /\ UNCHANGED <<srcVars, fileVars, paramVars, listVars, clientVars, crashed,
                   inbuf, inflight, posted>>

\* DataFrame::serialize. The array is resized without being filled, then
\* serializeInto writes the frame at data(): bytes of the array past the frame
\* keep what the memory held, and a frame longer than the array is written
\* past the end of the allocation.
serialize ==
    /\ ~crashed
    /\ frameIO.stage = "frame"
    /\ LET size == serializeSize(frameIO)
           written == serializeInto(frameIO)
       IN \E ub \in UbChoices(Len(written) > size), fill \in UninitBytes :
             /\ Len(written) > size => fill = 0
             /\ frameIO' =
                  IF ub = "crash" THEN [frameIO EXCEPT !.stage = "crashed"]
                  ELSE [frameIO EXCEPT
                          !.stage = "wire",
                          !.size = size,
                          !.wire = written
                                   \o [i \in 1..(size - Len(written)) |-> fill]]
    /\ lastOp' = Op("serialize", NoClient, "", FALSE, <<>>, frameIO'.size, 0, 0)
    /\ sent' = <<>>
    /\ UNCHANGED <<srcVars, fileVars, paramVars, listVars, clientVars, crashed,
                   inbuf, inflight, posted>>

\* DataFrame::deserialize of the byte array: the header is copied from data(),
\* the matrix is sized, and its elements are copied. Nothing compares what is
\* read with the size of the array, so a read past the end is undefined.
deserialize ==
    /\ ~crashed
    /\ frameIO.stage = "wire"
    /\ LET mem == frameIO.wire
           start == FromLittleEndian(SubSeq(mem, 1, FloatBytes))
           stop == FromLittleEndian(SubSeq(mem, FloatBytes + 1, 2 * FloatBytes))
           nsamp == FromLittleEndian(SubSeq(mem, 2 * FloatBytes + 1,
                                            2 * FloatBytes + SizeBytes))
           nchan == FromLittleEndian(SubSeq(mem, 2 * FloatBytes + SizeBytes + 1,
                                            2 * FloatBytes + 2 * SizeBytes))
           header == 2 * FloatBytes + 2 * SizeBytes
           n == nsamp * nchan
       IN \E ub \in UbChoices(header + SampleBytes * n > frameIO.size) :
             frameIO' =
                IF ub = "crash" THEN [frameIO EXCEPT !.stage = "crashed"]
                ELSE FrameIO("back", start, stop, nsamp, nchan,
                             BytesToSamples(SubSeq(mem, header + 1, Len(mem)), n),
                             frameIO.wire, frameIO.size)
    /\ lastOp' = Op("deserialize", NoClient, "", FALSE, <<>>, frameIO.size, 0, 0)
    /\ sent' = <<>>
    /\ UNCHANGED <<srcVars, fileVars, paramVars, listVars, clientVars, crashed,
                   inbuf, inflight, posted>>

\* "data\n"
TypeData == <<100, 97, 116, 97, NL>>

\* Client::sendDataFrame: the bytes written to the socket.
sendDataFrame ==
    /\ ~crashed
    /\ frameIO.stage = "frame"
    /\ LET totalSize == Len(TypeData) + bytesize(frameIO)
           msg == TypeData \o serializeInto(frameIO)
       IN frameIO' = [frameIO EXCEPT
                        !.stage = "sent",
                        !.size = SizeBytes + totalSize,
                        !.wire = LittleEndian(totalSize, SizeBytes) \o msg]
    /\ lastOp' = Op("send-frame", NoClient, "", FALSE, <<>>, frameIO'.size, 0, 0)
    /\ sent' = <<>>
    /\ UNCHANGED <<srcVars, fileVars, paramVars, listVars, clientVars, crashed,
                   inbuf, inflight, posted>>

(* ------------------------------------------------------------ inputs *)
\* The floats 0.0, 1.0 and 2.0 as bit patterns.
Float0 == 0
Float1 == 1065353216
Float2 == 1073741824
\* Samples: -1, 0 and 0x0102.
SampleValues == {0 - 1, 0, 258}
RECURSIVE SampleSeqs(_)
\* The sequences of n samples.
SampleSeqs(n) ==
    IF n = 0 THEN {<<>>}
    ELSE {<<v>> \o s : v \in SampleValues, s \in SampleSeqs(n - 1)}
SourceParams == {"gain", "trigger"}
RecordingLengths == 1..MaxRecordingLength
ReadIntervals == {DefaultReadInterval, 2 * DefaultReadInterval}
\* Chunk requests (start, stop) in ticks: two whole-second chunks ...
ValidChunks ==
    { <<0, 2 * TicksPerSec>>, <<TicksPerSec, 3 * TicksPerSec>> }
\* ... and requests that verifyChunkRequest or the recording length refuse: a
\* negative start, a chunk of one sample period, a chunk longer than
\* maxRequestChunkSize, a chunk past the longest recording.
InvalidChunks ==
    { <<0 - TicksPerSec, TicksPerSec>>, <<0, TicksPerSample>>,
      <<0, (maxRequestChunkSize + 1) * TicksPerSec>>,
      <<MaxRecordingLength * TicksPerSec, (MaxRecordingLength + 1) * TicksPerSec>> }
ChunkRequests == ValidChunks \cup InvalidChunks

\* A message: the length of the payload (4 bytes), then the payload.
Message(payload) == LittleEndian(Len(payload), SizeBytes) \o payload
\* A message of an unknown type.
UnknownTypeMessage == Message(Bogus \o <<NL>>)
\* A message whose type line has no newline.
NoNewlineMessage == Message(Bogus)
\* A set message that names an unknown parameter, with a 4-byte value.
UnknownParamMessage ==
    Message(TypeSet \o <<NL>> \o Bogus \o <<NL>> \o LittleEndian(5, SizeBytes))
\* The messages clients write: get-all-data(true), the three messages above,
\* and set read-interval.
ClientMessages ==
    { Message(TypeGetAllData \o <<NL, 1>>),
      UnknownTypeMessage,
      NoNewlineMessage,
      UnknownParamMessage,
      Message(TypeSet \o <<NL>> \o ParamReadInterval \o <<NL>>
              \o LittleEndian(2 * DefaultReadInterval, SizeBytes)) }

(* ----------------------------------------------------- specifications *)
\* The conversions of DataFrames of every shape up to MaxFrameRows by
\* MaxFrameCols, zero rows and zero columns included.
NextFrame ==
    \/ \E start \in {Float0, Float1}, rows \in 0..MaxFrameRows, cols \in 0..MaxFrameCols :
          \E data \in SampleSeqs(rows * cols) :
             newDataFrame(start, Float2, rows, cols, data)
    \/ serialize
    \/ deserialize
    \/ sendDataFrame

SpecFrame == Init /\ [][NextFrame]_vars

\* Connections, the life cycle of the source and of the recording, and the
\* source's events, each handled while no session's socket holds unread bytes
\* (the message of a client was read whole). Creates: the outcomes of
\* datasource::create and of the DataFile constructor that are explored (TRUE:
\* no failure); Appends: those of DataFile::setData; Rows: the sizes of the
\* sample batches.
Lifecycle(Creates, Appends, Rows) ==
    \/ handleNewClient /\ UNCHANGED ioVars
    \/ \E c \in SessionIds : handleClientDisconnection(c) /\ UNCHANGED ioVars
    \/ \E c \in SessionIds, created \in Creates :
          handleClientCreateSourceMessage(c, created) /\ UNCHANGED ioVars
    \/ \E c \in SessionIds : handleClientDeleteSourceMessage(c) /\ UNCHANGED ioVars
    \/ \E c \in SessionIds, ts \in Timestamps, ctorOk \in Creates :
          handleClientStartRecordingMessage(c, ts, ctorOk) /\ UNCHANGED ioVars
    \/ \E c \in SessionIds : handleClientStopRecordingMessage(c) /\ UNCHANGED ioVars
    \/ \E ok \in BOOLEAN : SourceRespond(ok) /\ UNCHANGED ioVars
    \/ \E rows \in Rows, appendOk \in Appends, oor \in {"throw", "data"} :
          SourceData(rows, appendOk, oor) /\ UNCHANGED ioVars
    \/ SourceError /\ UNCHANGED ioVars

\* The life cycle with all-data subscriptions and one chunk request.
Next ==
    \/ Lifecycle(BOOLEAN, BOOLEAN, 0..MaxRows)
    \/ \E c \in SessionIds, requested \in BOOLEAN :
          handleClientAllDataRequest(c, requested) /\ UNCHANGED ioVars
    \/ \E c \in SessionIds : handleClientDataRequest(c, 0, 2 * TicksPerSec) /\ UNCHANGED ioVars

Spec == Init /\ [][Next]_vars

\* The life cycle with the server parameters.
NextParams ==
    \/ Lifecycle({TRUE}, {TRUE}, {MaxRows})
    \/ \E c \in SessionIds, name \in FileNames :
          handleClientSetServerParamString(c, "save-file", name) /\ UNCHANGED ioVars
    \/ \E c \in SessionIds, name \in DirNames :
          handleClientSetServerParamString(c, "save-directory", name) /\ UNCHANGED ioVars
    \/ \E c \in SessionIds, val \in RecordingLengths :
          handleClientSetServerParamNumber(c, "recording-length", val) /\ UNCHANGED ioVars
    \/ \E c \in SessionIds, val \in ReadIntervals :
          handleClientSetServerParamNumber(c, "read-interval", val) /\ UNCHANGED ioVars

SpecParams == Init /\ [][NextParams]_vars

\* The life cycle with chunk requests and the recording length.
NextChunks ==
    \/ Lifecycle({TRUE}, BOOLEAN, 0..MaxRows)
    \/ \E c \in SessionIds, r \in ChunkRequests :
          handleClientDataRequest(c, r[1], r[2]) /\ UNCHANGED ioVars
    \/ \E c \in SessionIds, val \in {1, DefaultRecordingLength} :
          handleClientSetServerParamNumber(c, "recording-length", val) /\ UNCHANGED ioVars

SpecChunks == Init /\ [][NextChunks]_vars

\* The life cycle and the recording length, with a source that keeps emitting
\* non-empty batches while it streams.
LiveNext ==
    \/ Lifecycle({TRUE}, BOOLEAN, 0..MaxRows)
    \/ \E c \in SessionIds, val \in 0..MaxRecordingLength :
          handleClientSetServerParamNumber(c, "recording-length", val) /\ UNCHANGED ioVars

NonEmptyBatch ==
    \E rows \in 1..MaxRows, oor \in {"throw", "data"} :
       SourceData(rows, TRUE, oor) /\ UNCHANGED ioVars

LiveSpec == Init /\ [][LiveNext]_vars /\ WF_vars(NonEmptyBatch)

\* The life cycle with all-data subscriptions and requests for the last chunk
\* of a recording of the default length, with sinks that take every batch.
NextFinish ==
    \/ Lifecycle({TRUE}, {TRUE}, 1..MaxRows)
    \/ \E c \in SessionIds :
          handleClientAllDataRequest(c, TRUE) /\ UNCHANGED ioVars
    \/ \E c \in SessionIds :
          handleClientDataRequest(c, (DefaultRecordingLength - 2) * TicksPerSec,
                                  DefaultRecordingLength * TicksPerSec)
          /\ UNCHANGED ioVars

SpecFinish == Init /\ [][NextFinish]_vars

\* The life cycle of a recording from a source that is not a file and does not
\* fail: its initialized signal is handled at emission (the source is moved to
\* its thread by that handler), every later signal is posted.
NextThreaded ==
    \/ handleNewClient /\ UNCHANGED ioVars
    \/ \E c \in SessionIds : handleClientDisconnection(c) /\ UNCHANGED ioVars
    \/ \E c \in SessionIds : handleClientCreateSourceMessage(c, TRUE) /\ UNCHANGED ioVars
    \/ \E c \in SessionIds : handleClientDeleteSourceMessage(c) /\ UNCHANGED ioVars
    \/ \E c \in SessionIds, ts \in Timestamps :
          handleClientStartRecordingMessage(c, ts, TRUE) /\ UNCHANGED ioVars
    \/ \E c \in SessionIds : handleClientStopRecordingMessage(c) /\ UNCHANGED ioVars
    \/ /\ srcReq # <<>> /\ Head(srcReq).kind = "init"
       /\ SourceRespond(TRUE) /\ UNCHANGED ioVars
    \/ \E ok \in BOOLEAN : ThreadRespond(ok)
    \/ \E rows \in 1..MaxRows : ThreadData(rows)
    \/ \E oor \in {"throw", "data"} : Deliver(oor)

SpecThreaded == Init /\ [][NextThreaded]_vars

\* The life cycle with requests for the source's parameters.
NextSource ==
    \/ Lifecycle({TRUE}, {TRUE}, {MaxRows})
    \/ \E c \in SessionIds, param \in SourceParams :
          handleClientSetSourceParamMessage(c, param) /\ UNCHANGED ioVars
    \/ \E c \in SessionIds, param \in SourceParams :
          handleClientGetSourceParamMessage(c, param) /\ UNCHANGED ioVars

SpecSource == Init /\ [][NextSource]_vars

\* Sessions, the bytes their clients write and the parse loop.
NextCodec ==
    \/ ~Parsing /\ handleNewClient /\ UNCHANGED ioVars
    \/ \E c \in SessionIds, msg \in ClientMessages : clientWrite(c, msg)
    \/ \E c \in SessionIds, k \in 1..MaxInFlight : socketReceive(c, k)
    \/ \E c \in SessionIds : handleReadyRead(c)

SpecCodec == Init /\ [][NextCodec]_vars

(* ------------------------------------------------------------- claims *)
\* The messages of msgs written to session c by the given part of a handler.
MessagesTo(msgs, c, via) == SelectSeq(msgs, LAMBDA m : m.to = c /\ m.via = via)

\* C1: in every reachable state there is at most one source and at most one
\* sink (Server::source and Server::file are single pointers), and whenever a
\* sink exists the source exists and is in the Streaming state.
C1_SinkOnlyWhileStreaming == file => (source /\ srcMode = "streaming")

\* C2: a set request for a server parameter that is handled while a sink exists
\* is answered with a failure "set" response and leaves save-file,
\* save-directory, recording-length and read-interval unchanged.
C2_SetRefusedWhileRecording ==
    [][(lastOp'.name = "set" /\ file) =>
          /\ sent' = <<Reply(lastOp'.client, "set", FALSE, lastOp'.param)>>
          /\ UNCHANGED paramVars]_vars

\* A set of recording-length to another value was refused during a recording.
C2_RefusedSetReached ==
    /\ lastOp.name = "set" /\ file
    /\ lastOp.param = "recording-length" /\ lastOp.num # recordingLength
    /\ sent = <<Reply(lastOp.client, "set", FALSE, "recording-length")>>

\* C3: a client's requested-all-data flag goes from false to true only while no
\* sink exists; get-all-data(true) handled while a sink exists is answered with
\* failure and leaves the flag as it was; get-all-data(false) is always
\* answered with success and leaves the flag false.
C3_FlagSetOnlyWithoutSink ==
    [][\A c \in SessionIds :
          /\ (~requestedAll[c] /\ requestedAll'[c]) => ~file
          /\ (lastOp'.name = "get-all-data" /\ lastOp'.client = c) =>
                IF lastOp'.flag
                THEN file =>
                       /\ sent' = <<Reply(c, "get-all-data", FALSE, "")>>
                       /\ requestedAll'[c] = requestedAll[c]
                ELSE /\ sent' = <<Reply(c, "get-all-data", TRUE, "")>>
                     /\ ~requestedAll'[c]]_vars

\* C4: a broadcast data frame goes only to a client whose all-data subscription
\* was accepted and not cancelled since.
C4_BroadcastOnlyToSubscribed ==
    \A i \in 1..Len(sent) : sent[i].via = "broadcast" => sent[i].to \in subscribed

\* C5: for every batch appended to the sink, every client of the client list
\* whose requested-all-data flag is true is sent exactly one broadcast frame,
\* with stop = (nsamples after the append) / sample-rate, start = (nsamples
\* after the append - rows) / sample-rate, and the rows of the batch.
C5_OneFramePerSubscriber ==
    [][(lastOp'.name = "samples" /\ lastOp'.flag) =>
          \A c \in SeqToSet(clients) :
             requestedAll[c] =>
                MessagesTo(sent', c, "broadcast") =
                   <<Frame(c, FileLength(nsamples + lastOp'.num - lastOp'.num),
                           FileLength(nsamples + lastOp'.num), lastOp'.num,
                           "broadcast")>>]_vars

\* A non-empty batch was broadcast to two subscribers.
C5_TwoSubscribersServed ==
    /\ lastOp.name = "samples" /\ lastOp.flag /\ lastOp.num > 0
    /\ \E i, j \in 1..Len(sent) :
          /\ i < j /\ sent[i].via = "broadcast" /\ sent[j].via = "broadcast"
          /\ sent[i].to # sent[j].to /\ sent[i].stop = lastOp.stop

\* C6: every request of a client's pending queue, whatever else the queue
\* holds, is answered with exactly one data frame of its bounds in the first
\* samples event that takes the recording to its stop time or beyond: not before,
\* and with no error message in its place.
C6_PendingAnsweredWhenDue ==
    [][(lastOp'.name = "samples" /\ lastOp'.flag) =>
          \A c \in SeqToSet(clients) \ deleted : \A i \in 1..Len(pending[c]) :
             LET r == pending[c][i]
                 same == {k \in 1..Len(pending[c]) : pending[c][k] = r}
                 frame == Frame(c, r[1], r[2],
                                SampleIndex(r[2]) - SampleIndex(r[1]), "drain")
                 frames == {k \in 1..Len(sent') : sent'[k] = frame}
                 errors == {k \in 1..Len(sent') :
                              sent'[k] = ChunkError(c, r[1], r[2], "drain")}
             IN /\ errors = {}
                /\ Cardinality(frames) =
                      IF r[2] <= lastOp'.stop THEN Cardinality(same) ELSE 0]_vars

\* C7: the answers a samples event gives to a client's pending requests are for
\* the oldest requests of its queue, in the order in which they were added, and
\* a queued request is added behind the others.
C7_PendingServedInOrder ==
    [][\A c \in SessionIds :
          /\ lastOp'.name = "samples" =>
                LET d == MessagesTo(sent', c, "drain")
                IN /\ Len(d) <= Len(pending[c])
                   /\ \A i \in 1..Len(d) : <<d[i].start, d[i].stop>> = pending[c][i]
                   /\ pending'[c] = SubSeq(pending[c], Len(d) + 1, Len(pending[c]))
          /\ (lastOp'.name = "get-data" /\ pending'[c] # pending[c]) =>
                pending'[c] = Append(pending[c], <<lastOp'.start, lastOp'.stop>>)]_vars

\* One samples event answered two different pending requests of one client
\* with data frames.
C7_TwoRequestsDrained ==
    /\ lastOp.name = "samples"
    /\ \E i, j \in 1..Len(sent) :
          /\ i < j /\ sent[i].via = "drain" /\ sent[j].via = "drain"
          /\ sent[i].type = "data" /\ sent[j].type = "data"
          /\ sent[i].to = sent[j].to /\ sent[i].stop < sent[j].stop

\* The conditions of C8 on a request, with the recording length len (seconds).
ChunkWithin(start, stop, len) ==
    /\ start >= 0
    /\ stop > start + TicksPerSample
    /\ stop - start <= maxRequestChunkSize * TicksPerSec
    /\ stop <= len * TicksPerSec

\* C8: in every reachable state every pending request has start >= 0,
\* stop > start + 1/sample-rate, stop - start <= max-chunk-size and
\* stop <= recording-length; a get-data request that violates one of these is
\* answered with an error and is not queued.
C8_PendingRequestsValid ==
    [][/\ \A c \in SessionIds : \A i \in 1..Len(pending'[c]) :
             ChunkWithin(pending'[c][i][1], pending'[c][i][2], recordingLength')
       /\ (/\ lastOp'.name = "get-data"
           /\ ~ChunkWithin(lastOp'.start, lastOp'.stop, recordingLength)) =>
             /\ sent' = <<ChunkError(lastOp'.client, lastOp'.start, lastOp'.stop,
                                     "reply")>>
             /\ pending' = pending]_vars

\* C9: the samples event that takes the sink to recording-length or beyond
\* issues stop-stream, destroys the sink, clears save-file and removes the
\* samples listener; a sink that a samples event leaves in place is shorter
\* than recording-length; and while no sink exists no batch is handled or
\* appended and no data frame is sent.
C9_AutoStop ==
    [][/\ (/\ lastOp'.name = "samples" /\ lastOp'.flag
           /\ FileLength(nsamples + lastOp'.num) >= recordingLength * TicksPerSec) =>
             /\ ~file' /\ saveFile' = <<>> /\ dataAvail' = 0
             /\ srcReq' = Append(srcReq, Request("stop", "", NoClient))
       /\ (lastOp'.name = "samples" /\ file') =>
             FileLength(nsamples') < recordingLength' * TicksPerSec
       /\ ~file => /\ lastOp'.name # "samples"
                   /\ nsamples' = nsamples
                   /\ \A i \in 1..Len(sent') : sent'[i].type # "data"]_vars

\* A batch has just taken a recording to recording-length, and the sink is gone.
C9_RecordingFinishedReached ==
    /\ lastOp.name = "samples" /\ lastOp.flag
    /\ lastOp.stop >= recordingLength * TicksPerSec
    /\ ~file /\ saveFile = <<>> /\ dataAvail = 0
    /\ srcReq # <<>> /\ srcReq[Len(srcReq)].kind = "stop"

\* A recording is under way: stream-started(true) was handled, the sink exists,
\* the coordinator listens to the samples and the source streams.
Recording ==
    /\ file /\ dataAvail > 0 /\ streamStartedL = <<>>
    /\ source /\ srcMode = "streaming"

\* The sink was torn down by the batch that took it to recording-length.
Finished ==
    /\ ~file /\ lastOp.name = "samples" /\ lastOp.flag
    /\ lastOp.stop >= recordingLength * TicksPerSec

\* A stop-recording request was accepted, or the source was removed (source
\* error, append failure), or the source stopped streaming.
Interrupted == (file /\ dataAvail = 0) \/ ~source \/ srcMode # "streaming"

\* C10: once a recording is under way, if the source keeps emitting non-empty
\* batches, the recording finishes (the sink is torn down at recording-length
\* or beyond) unless it is interrupted, whether or not a client is connected.
C10_RecordingFinishes == Recording ~> (Finished \/ Interrupted)

\* A recording finished with no client connected.
C10_FinishedWithoutClients == Finished /\ clients = <<>> /\ nclients = 0

\* C11: a create-source request handled while a source exists, whatever the
\* state of that source (its initialization may still be pending), is answered
\* at once with a failure source-created response and changes nothing: the
\* source, its listeners and outstanding requests, the sink, the server
\* parameters, the client list and the clients' state stay as they were. A
\* create-source request installs a source only when there was none.
C11_CreateRefusedWhileSourceExists ==
    [][lastOp'.name = "create-source" =>
         /\ source =>
              /\ sent' = <<Reply(lastOp'.client, "source-created", FALSE, "exists")>>
              /\ UNCHANGED <<srcVars, fileVars, paramVars, listVars, clientVars>>
         /\ srcVars' # srcVars => (~source /\ source' /\ srcMode' = "uninit")]_vars

\* A create-source request was refused while the initialization of the
\* existing source was pending.
C11_RefusedWhilePending ==
    /\ lastOp.name = "create-source"
    /\ source /\ srcMode = "uninit" /\ initializedL # <<>>
    /\ sent = <<Reply(lastOp.client, "source-created", FALSE, "exists")>>
    /\ initializedL[1] # lastOp.client

\* C12: a delete-source request handled while a sink exists is answered with a
\* failure and leaves the source and the sink unchanged; handled with a source
\* and no sink it removes the source (with all its listeners) and answers
\* success; handled with no source it answers failure and changes nothing.
C12_DeleteSource ==
    [][lastOp'.name = "delete-source" =>
         /\ Len(sent') = 1
         /\ sent'[1].to = lastOp'.client /\ sent'[1].type = "source-deleted"
         /\ UNCHANGED <<fileVars, paramVars, listVars, clientVars>>
         /\ IF source /\ ~file
            THEN /\ sent'[1].ok
                 /\ ~source' /\ srcMode' = "none" /\ srcReq' = <<>>
                 /\ initializedL' = <<>> /\ getRespL' = <<>> /\ setRespL' = <<>>
                 /\ streamStartedL' = <<>> /\ streamStoppedL' = <<>> /\ dataAvail' = 0
            ELSE /\ ~sent'[1].ok
                 /\ UNCHANGED srcVars]_vars

\* A delete-source request was refused because of the sink.
C12_DeleteRefusedForSink ==
    /\ lastOp.name = "delete-source"
    /\ source /\ file
    /\ sent = <<Reply(lastOp.client, "source-deleted", FALSE, "recording")>>

\* C13: start-recording creates a sink only when the source is Ready (its
\* initialization succeeded and it does not stream) and no sink exists; handled
\* in any other state it is answered with a failure recording-started response,
\* creates no sink and issues no start-stream.
C13_SinkCreatedOnlyWhenReady ==
    [][(lastOp'.name = "start-recording" /\ ~(source /\ srcMode = "ready" /\ ~file)) =>
         /\ Len(sent') = 1
         /\ sent'[1].to = lastOp'.client /\ sent'[1].type = "recording-started"
         /\ ~sent'[1].ok
         /\ UNCHANGED <<file, nsamples, disk, srcReq, dataAvail, streamStartedL>>]_vars

\* C14: when start-recording fails at the creation of the sink (the target path
\* exists, or the creation raises an error), the client gets a failure
\* recording-started response and the coordinator is as it was before the
\* request: no sink, no samples or stream-started listener, no request to the
\* source, and save-file, save-directory, recording-length and read-interval
\* unchanged.
C14_FailedCreationChangesNothing ==
    [][(/\ lastOp'.name = "start-recording"
        /\ source /\ ~file
        /\ ~createFile(lastOp'.str, lastOp'.flag)[1]) =>
         /\ sent' = <<Reply(lastOp'.client, "recording-started", FALSE, "create-file")>>
         /\ UNCHANGED <<srcVars, fileVars, paramVars>>]_vars

\* C15: a stop-recording request is acted on (the samples listener removed,
\* stop-stream issued) only when the source is Streaming with a sink and no stop
\* in flight; handled in any other state (no source, no sink, stream-started
\* not yet received, a stop already requested) it is answered with a failure
\* recording-stopped response and changes no state.
C15_StopOnlyWhileStreaming ==
    [][(/\ lastOp'.name = "stop-recording"
        /\ ~(/\ source /\ file /\ srcMode = "streaming"
             /\ streamStartedL = <<>> /\ streamStoppedL = <<>>)) =>
         /\ Len(sent') = 1
         /\ sent'[1].to = lastOp'.client /\ sent'[1].type = "recording-stopped"
         /\ ~sent'[1].ok
         /\ UNCHANGED <<srcVars, fileVars, paramVars>>]_vars

\* The type of the reply to a request of this kind for a source parameter.
SourceReplyType(kind) == IF kind = "get" THEN "get-source" ELSE "set-source"

\* C16: whatever the interleaving of get-source and set-source requests with
\* the source's answers (the source answers each request once, in order), the
\* answer to a request whose client is still connected produces exactly one
\* reply, of the request's type, to the client that issued the request and with
\* the request's parameter; a request handled without a source is answered at
\* once with a failure, and one handled with a source is answered by nothing
\* else than that reply.
C16_SourceRepliesRouted ==
    [][/\ (lastOp'.name \in {"get", "set"} /\ Head(srcReq).by \in Connected) =>
            sent' = <<Reply(Head(srcReq).by, SourceReplyType(lastOp'.name),
                            lastOp'.flag, Head(srcReq).param)>>
       /\ lastOp'.name \in {"get-source", "set-source"} =>
            sent' = IF source THEN <<>>
                    ELSE <<Reply(lastOp'.client, lastOp'.name, FALSE, lastOp'.param)>>]_vars

\* C17: a create-source request for which a source was constructed is answered
\* by nothing when it is handled, and by exactly one source-created response to
\* its client when the initialized event is handled, whatever is handled in
\* between (a delete-source request included): the initialization request of a
\* client that stays connected ceases to be outstanding only in the step that
\* handles initialized and sends that response, a failure with the source
\* removed on initialized(false), a success with the source Ready on
\* initialized(true).
C17_CreateAnsweredAtInitialized ==
    [][/\ (lastOp'.name = "create-source" /\ ~source /\ source') => sent' = <<>>
       /\ (/\ srcReq # <<>> /\ Head(srcReq).kind = "init"
           /\ Head(srcReq).by \in Connected'
           /\ (srcReq' = <<>> \/ Head(srcReq').kind # "init")) =>
            /\ lastOp'.name = "init"
            /\ sent' = <<Reply(Head(srcReq).by, "source-created", lastOp'.flag, "")>>
            /\ IF lastOp'.flag THEN source' /\ srcMode' = "ready"
               ELSE ~source' /\ srcMode' = "none"]_vars

\* C18: when a source error is handled, in any state, every client that is in
\* the client list at that moment is sent exactly one error message and nothing
\* else, and is removed from the list, and the source is removed: after the
\* step the client list is empty and no source exists.
C18_SourceErrorDisconnectsAll ==
    [][lastOp'.name = "source-error" =>
         /\ Len(sent') = Len(clients)
         /\ \A c \in SeqToSet(clients) :
               MessagesTo(sent', c, "source-error") = <<ErrorMsg(c, "source-error")>>
         /\ clients' = <<>>
         /\ SeqToSet(clients) \subseteq deleted'
         /\ ~source' /\ srcMode' = "none" /\ srcReq' = <<>> /\ dataAvail' = 0]_vars

\* C19: when the append of a sample batch to the sink fails, every client of
\* the list is sent one error message and nothing else (no frame of a broadcast
\* or of a drained request), is torn down and is no longer a member of the
\* client list; the source is removed, the stop-stream request going with it;
\* and the batch is not counted and no recording-finished check runs for it.
C19_AppendFailureTearsDown ==
    [][(lastOp'.name = "samples" /\ ~lastOp'.flag /\ file) =>
         /\ Len(sent') = Len(clients)
         /\ \A c \in SeqToSet(clients) :
               MessagesTo(sent', c, "append-failed") = <<ErrorMsg(c, "append-failed")>>
         /\ SeqToSet(clients) \subseteq deleted'
         /\ SeqToSet(clients') \cap deleted' = {}
         /\ ~source' /\ srcMode' = "none" /\ srcReq' = <<>> /\ dataAvail' = 0
         /\ UNCHANGED <<nsamples, pending, saveFile>>]_vars

\* C20: a set-source request is forwarded to the source only while the source
\* is Ready (initialized, not streaming, no sink); handled while the source is
\* Creating or Streaming, or while a sink exists, or without a source, it is
\* not forwarded: the answer is a failure set-source response and the source,
\* its listeners and its outstanding requests are unchanged.
C20_SetSourceOnlyWhenReady ==
    [][(lastOp'.name = "set-source" /\ ~(source /\ srcMode = "ready" /\ ~file)) =>
         /\ sent' = <<Reply(lastOp'.client, "set-source", FALSE, lastOp'.param)>>
         /\ UNCHANGED srcVars]_vars

\* The buffer holds the 4 bytes of a length and the whole payload it declares.
WholeMessageBuffered(buf) ==
    /\ Len(buf) >= SizeBytes
    /\ Len(buf) >= SizeBytes + FromLittleEndian(SubSeq(buf, 1, SizeBytes))

\* The sequence p is a prefix of the sequence q.
IsPrefix(p, q) == Len(p) <= Len(q) /\ SubSeq(q, 1, Len(p)) = p

\* C21: the parse loop of a session dispatches a message only when the receive
\* buffer holds the 4-byte length and the whole payload that the length
\* declares; while fewer bytes are buffered no step consumes a byte of the
\* buffer or handles a request or an error of that session.
C21_DispatchOnlyWholeMessages ==
    [][\A c \in SessionIds :
          ~WholeMessageBuffered(inbuf[c]) =>
              /\ IsPrefix(inbuf[c], inbuf'[c])
              /\ ~(/\ lastOp'.client = c
                   /\ lastOp'.name \in {"message-error", "set", "get-all-data"})]_vars

\* C22: a message whose type line has no newline, or whose type is unknown, or
\* a set message that names an unknown parameter, buffered whole and alone, is
\* answered by exactly one error message to its client and by nothing else: the
\* step that reads it sends that error, consumes the message whole (no byte of
\* it is left to be read as another message), keeps the session in the client
\* list, and leaves the source, the sink, the server parameters, every pending
\* queue and every all-data flag unchanged.
C22_MalformedMessageOneError ==
    [][\A c \in SessionIds :
          inbuf[c] \in {UnknownTypeMessage, NoNewlineMessage, UnknownParamMessage} =>
              /\ lastOp'.name = "message-error" /\ lastOp'.client = c
              /\ sent' = <<ErrorMsg(c, "message-error")>>
              /\ inbuf'[c] = <<>>
              /\ c \in Connected'
              /\ UNCHANGED <<srcVars, fileVars, paramVars, listVars, clientVars>>]_vars

\* C23: a get-data request handled while there is no recording file is answered
\* by exactly one error message to its client: no data frame is sent and no
\* pending queue changes.
C23_DataRequestWithoutFile ==
    [][(lastOp'.name = "get-data" /\ ~file) =>
          /\ sent' = <<ChunkError(lastOp'.client, lastOp'.start, lastOp'.stop, "reply")>>
          /\ pending' = pending]_vars

\* A valid chunk was requested while there was no recording file, and refused.
C23_ValidChunkRefusedWithoutFile ==
    /\ lastOp.name = "get-data" /\ ~file
    /\ <<lastOp.start, lastOp.stop>> \in ValidChunks
    /\ sent = <<ChunkError(lastOp.client, lastOp.start, lastOp.stop, "reply")>>

\* C24: the client list never holds more than maxConnections sessions; a
\* connection is refused only while maxConnections sessions are in the list,
\* and then no session is created and the list is unchanged (a connection that
\* arrives while fewer sessions are connected is admitted).
C24_ConnectionCap ==
    [][/\ Len(clients') <= maxConnections
       /\ lastOp'.name = "connection-refused" =>
            /\ Len(clients) = maxConnections
            /\ UNCHANGED listVars]_vars

\* The bytes of the QByteArray of a conversion: size() bytes from data().
ByteArray(io) == SubSeq(io.wire, 1, io.size)

\* The frame of a conversion: start, stop, shape and samples.
FrameOf(io) == <<io.start, io.stop, io.rows, io.cols, io.data>>

\* C25: for every DataFrame of a bounded shape, zero rows or zero columns
\* included, serialize returns a byte array that holds start, stop, nsamples,
\* nchannels and then the nsamples * nchannels 16-bit samples, and nothing
\* else; and deserialize of that array returns a frame with the same start,
\* stop, nsamples, nchannels and samples.
C25_SerializeRoundTrip ==
    [][/\ lastOp'.name = "serialize" =>
            /\ frameIO'.stage = "wire"
            /\ ByteArray(frameIO') =
                  LittleEndian(frameIO.start, FloatBytes)
                  \o LittleEndian(frameIO.stop, FloatBytes)
                  \o LittleEndian(frameIO.rows, SizeBytes)
                  \o LittleEndian(frameIO.cols, SizeBytes)
                  \o SamplesToBytes(frameIO.data)
       /\ lastOp'.name = "deserialize" =>
            /\ frameIO'.stage = "back"
            /\ FrameOf(frameIO') = FrameOf(frameIO)]_vars

\* C26: a get-data request that passes the checks (a chunk that
\* verifyChunkRequest accepts, within the recording length) and is handled
\* while there is a recording file is answered at once, by exactly one data
\* frame or one error message and with no queue changed, if the index of its
\* last sample is not past the samples in the file; otherwise nothing is sent
\* and (start, stop) is appended at the tail of its client's queue, and the
\* request queued is not servicable at the length of the file.
C26_DataRequestImmediateOrQueued ==
    [][(/\ lastOp'.name = "get-data" /\ file
        /\ verifyChunkRequest(lastOp'.start, lastOp'.stop)
        /\ lastOp'.stop <= recordingLength * TicksPerSec) =>
          LET c == lastOp'.client
              start == lastOp'.start
              stop == lastOp'.stop
          IN IF SampleIndex(stop) <= nsamples
             THEN /\ sent' \in
                       { <<Frame(c, start, stop,
                                 SampleIndex(stop) - SampleIndex(start), "immediate")>>,
                         <<ChunkError(c, start, stop, "reply")>> }
                  /\ pending' = pending
             ELSE /\ sent' = <<>>
                  /\ pending' = [pending EXCEPT ![c] = Append(pending[c], <<start, stop>>)]
                  /\ numServicableRequests(<<<<start, stop>>>>, FileLength(nsamples)) = 0]_vars

\* A request was queued behind another request of its client.
C26_QueuedAtTail ==
    /\ lastOp.name = "get-data" /\ file /\ sent = <<>>
    /\ Len(pending[lastOp.client]) = 2
    /\ pending[lastOp.client][2] = <<lastOp.start, lastOp.stop>>
    /\ pending[lastOp.client][1] # pending[lastOp.client][2]

\* A request was answered at once with a data frame.
C26_AnsweredAtOnce ==
    /\ lastOp.name = "get-data" /\ file
    /\ Len(sent) = 1 /\ sent[1].type = "data" /\ sent[1].via = "immediate"

\* C27: in the drain of a samples event that takes the recording to the length
\* T, every request that is popped and read is servicable (its stop is not past
\* T), and a request whose stop is past T is not popped: it stays in its
\* client's queue.
C27_DrainPopsServicableOnly ==
    [][(lastOp'.name = "samples" /\ lastOp'.flag) =>
          /\ \A i \in 1..Len(sent') :
                sent'[i].via = "drain" => sent'[i].stop <= lastOp'.stop
          /\ \A c \in SessionIds : \A i \in 1..Len(pending[c]) :
                pending[c][i][2] > lastOp'.stop =>
                   Cardinality({k \in 1..Len(pending'[c]) : pending'[c][k] = pending[c][i]})
                      = Cardinality({k \in 1..Len(pending[c]) : pending[c][k] = pending[c][i]})]_vars

\* C28: when the stream-started event is handled for a start-recording request,
\* the stream-started listener is removed and the client that issued the
\* request is sent exactly one recording-started response; on
\* stream-started(false) the response is a failure, the sink is discarded, the
\* samples listener is removed and save-file is cleared; on
\* stream-started(true) the response is a success and the sink, the samples
\* listener and save-file are kept.
C28_StreamStartedHandled ==
    [][(lastOp'.name = "start" /\ streamStartedL # <<>>) =>
          /\ ~crashed'
          /\ streamStartedL' = <<>>
          /\ sent' = <<Reply(Head(srcReq).by, "recording-started", lastOp'.flag, "")>>
          /\ IF lastOp'.flag
             THEN UNCHANGED <<file, nsamples, dataAvail, saveFile>>
             ELSE ~file' /\ dataAvail' = 0 /\ saveFile' = <<>>]_vars

\* C28 for the requests whose client is still connected when the event is
\* handled.
C28_StreamStartedHandledConnected ==
    [][(/\ lastOp'.name = "start" /\ streamStartedL # <<>>
        /\ Head(srcReq).by \in Connected) =>
          /\ ~crashed'
          /\ streamStartedL' = <<>>
          /\ sent' = <<Reply(Head(srcReq).by, "recording-started", lastOp'.flag, "")>>
          /\ IF lastOp'.flag
             THEN UNCHANGED <<file, nsamples, dataAvail, saveFile>>
             ELSE ~file' /\ dataAvail' = 0 /\ saveFile' = <<>>]_vars

\* A start-recording request was answered with a failure and its sink discarded.
C28_StartFailedSinkDiscarded ==
    /\ lastOp.name = "start" /\ ~lastOp.flag /\ lastOp.client \in Connected
    /\ ~file /\ dataAvail = 0 /\ saveFile = <<>>
    /\ sent = <<Reply(lastOp.client, "recording-started", FALSE, "")>>

\* C29: while an accepted stop-recording request waits for the stream-stopped
\* event, no sample batch is appended to the sink and the sink stays open; when
\* the event is handled, the client that requested the stop is sent exactly one
\* recording-stopped response: a success with the sink closed and save-file
\* cleared on stream-stopped(true), a failure with the sink and save-file kept
\* on stream-stopped(false).
C29_StopRecordingHandled ==
    [][streamStoppedL # <<>> =>
          IF lastOp'.name = "stop"
          THEN /\ ~crashed'
               /\ sent' = <<Reply(Head(streamStoppedL), "recording-stopped",
                                  lastOp'.flag, "")>>
               /\ IF lastOp'.flag
                  THEN file /\ ~file' /\ saveFile' = <<>>
                  ELSE UNCHANGED <<file, nsamples, saveFile>>
          ELSE /\ lastOp'.name # "samples"
               /\ UNCHANGED <<file, nsamples>>]_vars

\* C29 for the requests that are accepted while no start-stream request is
\* outstanding and whose client is still connected.
C29_StopRecordingHandledWhileStreaming ==
    [][(/\ streamStoppedL # <<>> /\ Head(streamStoppedL) \notin deleted
        /\ \A i \in 1..Len(srcReq) : srcReq[i].kind # "start") =>
          IF lastOp'.name = "stop"
          THEN /\ ~crashed'
               /\ sent' = <<Reply(Head(streamStoppedL), "recording-stopped",
                                  lastOp'.flag, "")>>
               /\ IF lastOp'.flag
                  THEN file /\ ~file' /\ saveFile' = <<>>
                  ELSE UNCHANGED <<file, nsamples, saveFile>>
          ELSE /\ lastOp'.name # "samples"
               /\ UNCHANGED <<file, nsamples>>]_vars

\* C30: in the samples event that finishes the recording, at the length T that
\* the file has once the batch is appended, the broadcast frames are written
\* before the answers of the drain, and every pending request of a connected
\* client whose stop is not past T is popped and answered with its data frame
\* in that event, in which the sink is then closed.
C30_DrainBeforeSinkClosed ==
    [][(lastOp'.name = "samples" /\ lastOp'.flag /\ file /\ ~file') =>
          /\ lastOp'.stop = FileLength(nsamples + lastOp'.num)
          /\ \A i, j \in 1..Len(sent') :
                (sent'[i].via = "drain" /\ sent'[j].via = "broadcast") => j < i
          /\ \A c \in Connected : \A i \in 1..Len(pending[c]) :
                LET r == pending[c][i]
                    frame == Frame(c, r[1], r[2],
                                   SampleIndex(r[2]) - SampleIndex(r[1]), "drain")
                IN r[2] <= lastOp'.stop =>
                      /\ Cardinality({k \in 1..Len(sent') : sent'[k] = frame})
                            = Cardinality({k \in 1..Len(pending[c]) : pending[c][k] = r})
                      /\ \A k \in 1..Len(pending'[c]) : pending'[c][k] # r]_vars

\* The event that finished a recording sent a broadcast frame and then
\* answered a pending request that stops at the final length.
C30_DrainedInFinishingEvent ==
    /\ lastOp.name = "samples" /\ lastOp.flag /\ ~file
    /\ \E i, j \in 1..Len(sent) :
          /\ i < j /\ sent[i].via = "broadcast"
          /\ sent[j].via = "drain" /\ sent[j].type = "data"
          /\ sent[j].stop = lastOp.stop

\* C31: a set request handled while no sink exists is answered with one "set"
\* response and changes no server parameter but the one it names: save-file is
\* refused, and kept, exactly when the path save-directory + "/" + name exists,
\* and otherwise becomes the name; save-directory is refused, and kept, exactly
\* when the directory does not exist, and otherwise becomes the directory;
\* recording-length and read-interval succeed and take the value.
C31_SetWithoutSink ==
    [][(lastOp'.name = "set" /\ ~file) =>
          LET param == lastOp'.param
              name == lastOp'.str
              ok == IF param = "save-file"
                    THEN ~PathExists(disk, saveDirectory \o <<Slash>> \o name)
                    ELSE IF param = "save-directory"
                    THEN Canon(name) \in ExistingDirs
                    ELSE TRUE
          IN /\ sent' = <<Reply(lastOp'.client, "set", ok, param)>>
             /\ saveFile' = IF ok /\ param = "save-file" THEN name ELSE saveFile
             /\ saveDirectory' =
                   IF ok /\ param = "save-directory" THEN name ELSE saveDirectory
             /\ recordingLength' =
                   IF param = "recording-length" THEN lastOp'.num ELSE recordingLength
             /\ readInterval' =
                   IF param = "read-interval" THEN lastOp'.num ELSE readInterval]_vars

\* The response that answers a request to start or to stop the stream.
RecordingReplyType(kind) ==
    IF kind = "start" THEN "recording-started" ELSE "recording-stopped"

\* C32: whatever the interleaving of start-recording and stop-recording
\* requests of several clients with the stream-started and stream-stopped
\* events and with recording-finished, each request is answered exactly once,
\* to its client: a request that is refused is answered at once with a failure
\* and one that is accepted by nothing until the source answers it; the answer
\* of the source to the request of a client that is still connected produces
\* exactly one response, of the request's type, to that client; and an event
\* that answers no request of a client (the stop that recording-finished
\* issued) produces no response.
C32_RecordingRequestsAnswered ==
    [][/\ lastOp'.name \in {"start-recording", "stop-recording"} =>
            \/ /\ sent' = <<>>
               /\ Len(srcReq') = Len(srcReq) + 1
               /\ srcReq'[Len(srcReq')].by = lastOp'.client
            \/ /\ Len(sent') = 1 /\ sent'[1].to = lastOp'.client /\ ~sent'[1].ok
               /\ sent'[1].type = (IF lastOp'.name = "start-recording"
                                   THEN "recording-started" ELSE "recording-stopped")
               /\ srcReq' = srcReq
       /\ lastOp'.name \in {"start", "stop"} =>
            sent' = IF Head(srcReq).by \in Connected
                    THEN <<Reply(Head(srcReq).by, RecordingReplyType(lastOp'.name),
                                 lastOp'.flag, "")>>
                    ELSE IF Head(srcReq).by = NoClient THEN <<>>
                    ELSE sent']_vars

\* C33: when a source error or a failed append of a batch has been handled,
\* neither a source nor a sink exists (so that a start-recording request that
\* follows a new create-source is not refused because a recording is active).
C33_NoSinkAfterSourceFailure ==
    [][(/\ \/ lastOp'.name = "source-error"
           \/ lastOp'.name = "samples" /\ ~lastOp'.flag
        /\ ~crashed') =>
          ~source' /\ ~file']_vars

\* C34: in every reachable state the counter nclients is the number of
\* sessions in the client list.
C34_CounterIsListLength == nclients = Len(clients)

\* C35: no handler calls a send operation on a session that was deleted: when
\* a client disconnects, or is torn down by a source error, while a request of
\* its own waits for the answer of the source, the event that answers the
\* request sends nothing to the session.
C35_NoSendToDeletedSession ==
    [][\A i \in 1..Len(sent') :
          /\ sent'[i].type # "use-after-delete"
          /\ sent'[i].to # NoClient => sent'[i].to \in Connected]_vars

\* C36: every handler that reads the sink runs while a sink exists: no samples
\* event and no stream-stopped(true) event is handled in a state without a
\* sink (the handler would dereference the null file pointer).
C36_SinkReadOnlyWhenPresent ==
    [][/\ lastOp'.name = "samples" => file
       /\ (lastOp'.name = "stop" /\ lastOp'.flag /\ lastOp'.client # NoClient) => file
       /\ \A i \in 1..Len(sent') : sent'[i].type # "null-file"]_vars

\* C37: a chunk request queued during one recording is not left for a later
\* one: a step that tears the sink down leaves no connected session with a
\* pending request.
C37_NoPendingAcrossRecordings ==
    [][(file /\ ~file' /\ ~crashed') =>
          \A c \in Connected' : pending'[c] = <<>>]_vars

\* C38: every turn of the parse loop takes exactly the message it dispatches
\* from the receive buffer: the 4 bytes of the length and the size bytes that
\* follow, whatever the message is, so that the buffer left starts at the next
\* message.
C38_ParseConsumesWholeMessage ==
    [][\A c \in SessionIds :
          Len(inbuf'[c]) < Len(inbuf[c]) =>
              LET size == FromLittleEndian(SubSeq(inbuf[c], 1, SizeBytes))
              IN /\ Len(inbuf[c]) >= SizeBytes + size
                 /\ inbuf'[c] = SubSeq(inbuf[c], SizeBytes + size + 1, Len(inbuf[c]))]_vars

\* C39: when an attempt to stop a running recording fails (the sink exists,
\* the source streams, and the listener of a stop-recording request handles
\* stream-stopped(false)), the coordinator is where it was before the request:
\* the sink exists, the source streams, and the coordinator is connected to
\* the source's samples again.
C39_FailedStopRestoresRecording ==
    [][(/\ lastOp'.name = "stop" /\ ~lastOp'.flag
        /\ lastOp'.client # NoClient /\ ~crashed'
        /\ file /\ srcMode = "streaming") =>
          /\ file'
          /\ srcMode' = "streaming"
          /\ dataAvail' > 0]_vars

\* C40: for every DataFrame with n = nsamples * nchannels elements, the byte
\* array serialize returns has length bytesize() = 16 + 2 * n, the number of
\* bytes serializeInto writes.
C40_SerializeLengthIsBytesize ==
    [][lastOp'.name = "serialize" =>
          LET n == frameIO.rows * frameIO.cols
          IN /\ bytesize(frameIO) = 16 + 2 * n
             /\ Len(serializeInto(frameIO)) = bytesize(frameIO)
             /\ frameIO'.stage = "wire"
             /\ frameIO'.size = bytesize(frameIO)]_vars

\* The part of C40 about bytesize and serializeInto alone: serializeInto writes
\* bytesize() = 16 + 2 * n bytes.
C40_SerializeIntoWritesBytesize ==
    [][lastOp'.name = "serialize" =>
          LET n == frameIO.rows * frameIO.cols
          IN /\ bytesize(frameIO) = 16 + 2 * n
             /\ Len(serializeInto(frameIO)) = bytesize(frameIO)]_vars

====
